---------------------------- MODULE Spec2Model ----------------------------
(* A model of the class-file toolkit: the modified-UTF-8 codec              *)
(* (maya-mutf8), the length-checked byte substrate (maya-bytes), the I/O    *)
(* model of a class file (maya-classfile-io) and the lifters of the         *)
(* constant pool, the attributes and the class (maya-classfile-ir), and the *)
(* parser of the compiler.                                                  *)
(*                                                                          *)
(* Bytes are integers 0..255.  A Rust shift x >> k is x \div 2^k, a mask    *)
(* x & (2^k - 1) is x % 2^k, a cast `as u8` is % 256, and a | b of two      *)
(* values with disjoint bits is a + b.  Integers wider than 31 bits (u32,   *)
(* i64, u64 and the bit patterns of f32, f64) are kept as sequences of      *)
(* 16-bit halfwords, most significant first, because the model checker's    *)
(* integers are 32 bits wide.                                               *)
EXTENDS Integers, Sequences, FiniteSets, TLC

VARIABLES
    \* ---- maya-mutf8 ----
    origin,     \* where decode's argument comes from: "str", "vm" or "raw"
    string,     \* encode's argument: a sequence of Unicode scalar values
    input,      \* decode's argument: a byte sequence
    idx,        \* decode's cursor
    output,     \* decode's output vector
    result,     \* decode's return value
    reencoded,  \* encode(decode(input)) once computed
    cpc,        \* position in the codec scenario
    \* ---- maya-bytes ----
    buffer,     \* the Cursor's byte vector
    position,   \* the Cursor's position
    nwrites,    \* writes made so far
    wrote,      \* the latest write: type, value, where it began and ended
    last,       \* the latest read: what was asked, from where, and its result
    \* ---- maya-classfile-io ----
    desc,       \* the class the input was generated from (NoDesc if from none)
    file,       \* IOClassFile::read's input: the Cursor's bytes
    fpos,       \* the Cursor's position
    cf,         \* the IOClassFile being read
    ioret,      \* read's return value
    out,        \* the bytes IOClassFile::write emits
    iopc,       \* position in read / write
    \* ---- maya-classfile-ir ----
    raw,        \* IRCpTag::from_io's argument raw_tags
    formed,     \* its `res`: the entries lifted so far
    irret,      \* how from_io ended
    irpc,       \* position in from_io
    \* ---- maya-classfile-ir: IRAttributeInfo::from_io ----
    attr_cp,    \* its argument cp: the lifted pool
    attr_raw,   \* its argument raw: the IOAttributeInfo
    attr_name,  \* its `name`
    attr_pos,   \* the position of its Cursor over raw.info
    attr_n,     \* n_entries of the StackMapTable arm
    attr_entries, \* that arm's `entries`
    attr_out,   \* the IRAttributeInfo made
    attr_ret,   \* how from_io ended
    attr_pc,    \* position in from_io
    \* ---- maya-classfile-ir: IRClassFile::from_io ----
    cls_raw,    \* its argument raw: the IOClassFile
    cls_ir,     \* the IRClassFile being made
    cls_ret,    \* how from_io ended
    cls_pc,     \* position in from_io
    \* ---- compiler: Parser ----
    tokens,     \* Parser::tokens, each token by its kind
    token_idx,  \* Parser::token_idx
    methods,    \* parse's `methods`
    modifiers,  \* collect_modifiers' `v`, then parse_method's `modifiers`
    instructions, \* parse_method's `instructions`
    spins,      \* passes of collect_modifiers' loop that changed nothing
    parse_ret,  \* how parse ended
    parse_pc,   \* position in parse
    \* ---- the build ----
    overflow_checks \* whether integer overflow panics (debug) or wraps (release)

codecVars == <<origin, string, input, idx, output, result, reencoded, cpc>>
bytesVars == <<buffer, position, nwrites, wrote, last>>

ioVars == <<desc, file, fpos, cf, ioret, out, iopc>>
irVars == <<raw, formed, irret, irpc>>
attrVars ==
    <<attr_cp, attr_raw, attr_name, attr_pos, attr_n, attr_entries, attr_out, attr_ret,
      attr_pc>>
classVars == <<cls_raw, cls_ir, cls_ret, cls_pc>>
parseVars ==
    <<tokens, token_idx, methods, modifiers, instructions, spins, parse_ret, parse_pc>>

\* What each component leaves alone.
notCodec ==
    <<bytesVars, ioVars, irVars, attrVars, classVars, parseVars, overflow_checks>>
notBytes ==
    <<codecVars, ioVars, irVars, attrVars, classVars, parseVars, overflow_checks>>
notIO ==
    <<codecVars, bytesVars, irVars, attrVars, classVars, parseVars, overflow_checks>>
notIR ==
    <<codecVars, bytesVars, ioVars, attrVars, classVars, parseVars, overflow_checks>>
notAttr ==
    <<codecVars, bytesVars, ioVars, irVars, classVars, parseVars, overflow_checks>>
notClass ==
    <<codecVars, bytesVars, ioVars, irVars, attrVars, parseVars, overflow_checks>>

notParse ==
    <<codecVars, bytesVars, ioVars, irVars, attrVars, classVars, overflow_checks>>

vars ==
    <<codecVars, bytesVars, ioVars, irVars, attrVars, classVars, parseVars,
      overflow_checks>>

-----------------------------------------------------------------------------
(* Bit helpers *)

RECURSIVE BitAnd(_, _)
BitAnd(a, b) ==
    IF a = 0 \/ b = 0 THEN 0
    ELSE (IF a % 2 = 1 /\ b % 2 = 1 THEN 1 ELSE 0) + 2 * BitAnd(a \div 2, b \div 2)

RECURSIVE Pow2(_)
Pow2(k) == IF k = 0 THEN 1 ELSE 2 * Pow2(k - 1)

Shr(x, k) == x \div Pow2(k)
Shl(x, k) == x * Pow2(k)
AsU8(x) == x % 256

Byte == 0 .. 255

-----------------------------------------------------------------------------
(* maya-mutf8: encode *)

\* One iteration of encode's loop: the bytes pushed for code point c.
encodeChar(c) ==
    IF c = 0 THEN << \hC0, \h80 >>
    ELSE IF c <= \h7F THEN << AsU8(c) >>
    ELSE IF c <= \h7FF THEN
        << \hC0 + BitAnd(\h1F, AsU8(Shr(c, 6))), \h80 + AsU8(BitAnd(\h3F, c)) >>
    ELSE IF c <= \h7FFF THEN
        << \hE0 + BitAnd(\h0F, AsU8(Shr(c, 12))),
           \h80 + BitAnd(\h3F, AsU8(Shr(c, 6))),
           \h80 + AsU8(BitAnd(\h3F, c)) >>
    ELSE
        << \hED,
           \hA0 + BitAnd(AsU8(Shr(c, 16)), \h0F),
           \h80 + BitAnd(AsU8(Shr(c, 10)), \h3F),
           \hED,
           \hB0 + BitAnd(AsU8(Shr(c, 6)), \h0F),
           \h80 + AsU8(BitAnd(c, \h3F)) >>

RECURSIVE encode(_)
encode(s) == IF s = << >> THEN << >> ELSE encodeChar(Head(s)) \o encode(Tail(s))


-----------------------------------------------------------------------------
(* std: String::from_utf8, as decode's last line calls it *)

IsCont(b) == b >= \h80 /\ b <= \hBF

\* Width of the UTF-8 sequence a strict validator accepts at the head of bs
\* (0 if none): overlong forms, surrogates and values above 0x10FFFF are
\* rejected.
Utf8Width(bs) ==
    LET n == Len(bs)
        b1 == bs[1]
    IN  IF b1 < \h80 THEN 1
        ELSE IF b1 >= \hC2 /\ b1 <= \hDF THEN
            IF n >= 2 /\ IsCont(bs[2]) THEN 2 ELSE 0
        ELSE IF b1 >= \hE0 /\ b1 <= \hEF THEN
            IF n >= 3 /\ IsCont(bs[3])
               /\ (\/ b1 = \hE0 /\ bs[2] >= \hA0 /\ bs[2] <= \hBF
                   \/ b1 >= \hE1 /\ b1 <= \hEC /\ IsCont(bs[2])
                   \/ b1 = \hED /\ bs[2] >= \h80 /\ bs[2] <= \h9F
                   \/ b1 >= \hEE /\ IsCont(bs[2]))
            THEN 3 ELSE 0
        ELSE IF b1 >= \hF0 /\ b1 <= \hF4 THEN
            IF n >= 4 /\ IsCont(bs[3]) /\ IsCont(bs[4])
               /\ (\/ b1 = \hF0 /\ bs[2] >= \h90 /\ bs[2] <= \hBF
                   \/ b1 >= \hF1 /\ b1 <= \hF3 /\ IsCont(bs[2])
                   \/ b1 = \hF4 /\ bs[2] >= \h80 /\ bs[2] <= \h8F)
            THEN 4 ELSE 0
        ELSE 0

Utf8Scalar(bs, w) ==
    IF w = 1 THEN bs[1]
    ELSE IF w = 2 THEN (bs[1] % 32) * 64 + (bs[2] % 64)
    ELSE IF w = 3 THEN (bs[1] % 16) * 4096 + (bs[2] % 64) * 64 + (bs[3] % 64)
    ELSE (bs[1] % 8) * 262144 + (bs[2] % 64) * 4096 + (bs[3] % 64) * 64 + (bs[4] % 64)

RECURSIVE Utf8Valid(_)
Utf8Valid(bs) ==
    IF bs = << >> THEN TRUE
    ELSE LET w == Utf8Width(bs)
         IN  w > 0 /\ Utf8Valid(SubSeq(bs, w + 1, Len(bs)))

\* The chars of a valid UTF-8 byte sequence.
RECURSIVE Utf8Chars(_)
Utf8Chars(bs) ==
    IF bs = << >> THEN << >>
    ELSE LET w == Utf8Width(bs)
         IN  << Utf8Scalar(bs, w) >> \o Utf8Chars(SubSeq(bs, w + 1, Len(bs)))

-----------------------------------------------------------------------------
(* maya-mutf8: decode *)

Chunk == 16

Ok(s) == [kind |-> "Ok", err |-> "none", n |-> 0, string |-> s]
Err(e, k) == [kind |-> "Err", err |-> e, n |-> k, string |-> << >>]

\* u8x16's `lt` is PartialOrd::lt: the two vectors are compared as arrays,
\* lexicographically; here the right-hand side is splat(0x80).
RECURSIVE LtSplat80(_)
LtSplat80(chunk) ==
    IF chunk = << >> THEN FALSE
    ELSE IF Head(chunk) # \h80 THEN Head(chunk) < \h80
    ELSE LtSplat80(Tail(chunk))

is_ascii(inp, i) == LtSplat80(SubSeq(inp, i + 1, i + Chunk))

\* The first loop's guard and one iteration of it; st = [idx, output, err, n].
FastGuard(inp, st) == st.idx + Chunk <= Len(inp)

FastStep(inp, st) ==
    [st EXCEPT !.output = st.output \o SubSeq(inp, st.idx + 1, st.idx + Chunk),
               !.idx = st.idx + Chunk]

SlowGuard(inp, st) == st.idx < Len(inp)

\* input[k] with k a 0-based index.
At(inp, k) == inp[k + 1]

\* The bytes pushed when the 6-byte form is recognised.
SixByteOut(b2, b3, b5, b6) ==
    LET bits0 == Shl(BitAnd(b2, \h0F) + 1, 16)
        bits1 == bits0 + BitAnd(b3, Shl(\h3F, 10))
        bits2 == bits1 + BitAnd(b5, Shl(\h0F, 6))
        bits == bits2 + BitAnd(b6, \h3F)
    IN  << \hF0 + AsU8(BitAnd(Shr(bits, 18), \h07)),
           \h80 + AsU8(BitAnd(Shr(bits, 12), \h3F)),
           \h80 + AsU8(BitAnd(Shr(bits, 6), \h3F)),
           \h80 + AsU8(BitAnd(bits, \h3F)) >>

\* One iteration of the second loop.
SlowStep(inp, st) ==
    LET len == Len(inp)
        b == At(inp, st.idx)
        i == st.idx + 1
    IN  IF b = 0 THEN [st EXCEPT !.idx = i, !.err = "NullByteInInput"]
        ELSE IF b < \h80 THEN [st EXCEPT !.idx = i, !.output = st.output \o << b >>]
        ELSE IF BitAnd(b, \hE0) = \hC0 THEN
            IF i >= len
            THEN [st EXCEPT !.idx = i, !.err = "CodepointBadInputLength", !.n = 2]
            ELSE LET b2 == At(inp, i)
                 IN  IF b # \hC0 \/ b2 # \h80
                     THEN [st EXCEPT !.idx = i + 1, !.output = st.output \o << b, b2 >>]
                     ELSE [st EXCEPT !.idx = i + 1, !.output = st.output \o << 0 >>]
        ELSE IF BitAnd(b, \hF0) = \hE0 THEN
            IF i + 1 >= len
            THEN [st EXCEPT !.idx = i, !.err = "CodepointBadInputLength", !.n = 3]
            ELSE LET b2 == At(inp, i)
                     b3 == At(inp, i + 1)
                     j == i + 2
                 IN  IF /\ j + 2 < len /\ b = \hED /\ BitAnd(b2, \hF0) = \hA0
                        /\ At(inp, j) = \hED /\ BitAnd(At(inp, j + 1), \hF0) = \hB0
                     THEN [st EXCEPT !.idx = j + 3,
                                     !.output = st.output
                                        \o SixByteOut(b2, b3, At(inp, j + 1), At(inp, j + 2))]
                     ELSE [st EXCEPT !.idx = j, !.output = st.output \o << b, b2, b3 >>]
        ELSE [st EXCEPT !.idx = i, !.err = "InvalidEncoding"]

\* The reads of an iteration of the second loop with the 6-byte look-ahead
\* not guarded by `idx + 2 < len`.
SlowReads_unguarded(inp, st) ==
    LET len == Len(inp)
        b == At(inp, st.idx)
        i == st.idx + 1
    IN  { st.idx } \cup
        (IF b # 0 /\ b >= \h80 /\ BitAnd(b, \hE0) = \hC0 THEN
             IF i >= len THEN { } ELSE { i }
         ELSE IF b >= \h80 /\ BitAnd(b, \hF0) = \hE0 THEN
             IF i + 1 >= len THEN { }
             ELSE { i, i + 1 } \cup
                  (IF b = \hED /\ BitAnd(At(inp, i), \hF0) = \hA0
                   THEN { i + 2, i + 3, i + 4 }
                   ELSE { })
         ELSE { })

\* The indices k of the reads input[k] of one iteration of the second loop:
\* b, then b2 of the 2-byte arm, or b2 and b3 of the 3-byte arm and, when the
\* look-ahead's condition holds, b4, b5 and b6.
SlowReads(inp, st) ==
    LET len == Len(inp)
        b == At(inp, st.idx)
        i == st.idx + 1
    IN  { st.idx } \cup
        (IF b # 0 /\ b >= \h80 /\ BitAnd(b, \hE0) = \hC0 THEN
             IF i >= len THEN { } ELSE { i }
         ELSE IF b >= \h80 /\ BitAnd(b, \hF0) = \hE0 THEN
             IF i + 1 >= len THEN { }
             ELSE { i, i + 1 } \cup
                  (IF i + 4 < len /\ b = \hED /\ BitAnd(At(inp, i), \hF0) = \hA0
                   THEN { i + 2, i + 3, i + 4 }
                   ELSE { })
         ELSE { })

\* The indices of the slice input[idx..idx + 16] of one iteration of the first loop.
FastReads(inp, st) == st.idx .. st.idx + Chunk - 1

\* decode's last line: Ok(String::from_utf8(output)?)
Finish(st) ==
    IF st.err # "none" THEN Err(st.err, st.n)
    ELSE IF Utf8Valid(st.output) THEN Ok(Utf8Chars(st.output))
    ELSE Err("FromUTF8Err", 0)

DecodeStart == [idx |-> 0, output |-> << >>, err |-> "none", n |-> 0]

RECURSIVE FastLoop(_, _)
FastLoop(inp, st) ==
    IF FastGuard(inp, st) /\ is_ascii(inp, st.idx) THEN FastLoop(inp, FastStep(inp, st)) ELSE st

RECURSIVE SlowLoop(_, _)
SlowLoop(inp, st) ==
    IF st.err = "none" /\ SlowGuard(inp, st) THEN SlowLoop(inp, SlowStep(inp, st)) ELSE st

decode(inp) == Finish(SlowLoop(inp, FastLoop(inp, DecodeStart)))


-----------------------------------------------------------------------------
(* maya-bytes: big-endian values *)

IntTypes == {"i8", "u8", "i16", "u16", "i32"}
WideTypes == {"u32", "i64", "u64", "f32", "f64"}
Types == IntTypes \cup WideTypes

\* The $bytes argument of define_integral_r!, and the size of f32 and f64.
Width(ty) ==
    CASE ty \in {"i8", "u8"} -> 1
      [] ty \in {"i16", "u16"} -> 2
      [] ty \in {"i32", "u32", "f32"} -> 4
      [] ty \in {"i64", "u64", "f64"} -> 8

Signed(ty) == ty \in {"i8", "i16", "i32"}

RECURSIVE Pow256(_)
Pow256(k) == IF k = 0 THEN 1 ELSE 256 * Pow256(k - 1)

RECURSIVE HalfwordBytes(_)
HalfwordBytes(hs) ==
    IF hs = << >> THEN << >>
    ELSE << Head(hs) \div 256, Head(hs) % 256 >> \o HalfwordBytes(Tail(hs))

RECURSIVE BytesHalfwords(_)
BytesHalfwords(bs) ==
    IF bs = << >> THEN << >>
    ELSE << bs[1] * 256 + bs[2] >> \o BytesHalfwords(SubSeq(bs, 3, Len(bs)))

\* $ty::to_be_bytes (f32 and f64: the bytes of to_bits()).  An IntTypes value
\* is an integer, two's complement in Width(ty) bytes; a WideTypes value is
\* its bit pattern in 16-bit halfwords.
to_be_bytes(ty, v) ==
    IF ty \in IntTypes
    THEN [k \in 1 .. Width(ty) |-> (v \div Pow256(Width(ty) - k)) % 256]
    ELSE HalfwordBytes(v)

RECURSIVE Unsigned(_)
Unsigned(bs) == IF bs = << >> THEN 0 ELSE Unsigned(SubSeq(bs, 1, Len(bs) - 1)) * 256 + bs[Len(bs)]

\* from_be_bytes without the sign.
from_be_bytes_unsigned(ty, bs) ==
    IF ty \in IntTypes THEN Unsigned(bs) ELSE BytesHalfwords(bs)

\* $ty::from_be_bytes (f32 and f64: from_bits of the integer read).
from_be_bytes(ty, bs) ==
    IF ty \in IntTypes
    THEN IF Signed(ty) /\ bs[1] >= 128
         THEN (bs[1] - 256) * Pow256(Width(ty) - 1) + Unsigned(Tail(bs))
         ELSE Unsigned(bs)
    ELSE BytesHalfwords(bs)

-----------------------------------------------------------------------------
(* maya-bytes: BytesReadExt over std::io::Cursor *)

ROk(v, pos) == [kind |-> "Ok", value |-> v, pos |-> pos]
RErr(e, pos) == [kind |-> e, value |-> << >>, pos |-> pos]

\* len_check with `<=` for `<`.
len_check_off_by_one(buf, pos, needed) == ~(Len(buf) <= pos + needed)

\* len_check: Ok iff not (len < position + needed).
len_check(buf, pos, needed) == ~(Len(buf) < pos + needed)

\* Cursor::read_exact: n bytes from pos, or an I/O error that leaves the
\* cursor at the end of the stream.
read_exact(buf, pos, n) ==
    IF pos + n <= Len(buf)
    THEN ROk(SubSeq(buf, pos + 1, pos + n), pos + n)
    ELSE RErr("IO", IF pos > Len(buf) THEN pos ELSE Len(buf))

\* read_n_bytes::<N> and read_n_bytes_vec(amount)
read_n_bytes(buf, pos, n) ==
    IF ~len_check(buf, pos, n) THEN RErr("NotEnoughData", pos)
    ELSE read_exact(buf, pos, n)

\* `?`: an Err is returned as it is, an Ok value goes on into F.
Try(r, F(_)) == IF r.kind # "Ok" THEN r ELSE F(r)

\* read_$ty of define_integral_r!
read_int(buf, pos, ty) ==
    IF ~len_check(buf, pos, Width(ty)) THEN RErr("NotEnoughData", pos)
    ELSE Try(read_exact(buf, pos, Width(ty)), LAMBDA r:
         ROk(from_be_bytes(ty, r.value), r.pos))

\* read_f32 / read_f64: len_check, then the integer read of the same width.
read_float(buf, pos, ty) ==
    IF ~len_check(buf, pos, Width(ty)) THEN RErr("NotEnoughData", pos)
    ELSE Try(read_int(buf, pos, IF ty = "f32" THEN "u32" ELSE "u64"), LAMBDA r:
         ROk(r.value, r.pos))

read(buf, pos, ty) ==
    IF ty \in {"f32", "f64"} THEN read_float(buf, pos, ty) ELSE read_int(buf, pos, ty)

\* Write::write_all on a Cursor<Vec<u8>>: overwrite from pos, growing the
\* vector (zero-filled up to pos) as needed.
write_all(buf, pos, bs) ==
    LET end == pos + Len(bs)
        newlen == IF end > Len(buf) THEN end ELSE Len(buf)
    IN  [k \in 1 .. newlen |->
            IF k > pos /\ k <= end THEN bs[k - pos]
            ELSE IF k <= Len(buf) THEN buf[k] ELSE 0]

\* write_$ty of define_write!
write(buf, pos, ty, v) == write_all(buf, pos, to_be_bytes(ty, v))

-----------------------------------------------------------------------------
(* maya-classfile-io: constant-pool entries *)

\* Reads the integers of the given types one after the other; the first
\* failure is returned (the `?` after each read).
RECURSIVE ReadSeq(_, _, _)
ReadSeq(buf, pos, tys) ==
    IF tys = << >> THEN ROk(<< >>, pos)
    ELSE Try(read_int(buf, pos, Head(tys)), LAMBDA r:
         Try(ReadSeq(buf, r.pos, Tail(tys)), LAMBDA rest:
         ROk(<< r.value >> \o rest.value, rest.pos)))

\* `for _ in 0..len { bytes.push(buffer.read_u8()?) }`
RECURSIVE ReadU8s(_, _, _)
ReadU8s(buf, pos, n) ==
    IF n = 0 THEN ROk(<< >>, pos)
    ELSE Try(read_int(buf, pos, "u8"), LAMBDA r:
         Try(ReadU8s(buf, r.pos, n - 1), LAMBDA rest:
         ROk(<< r.value >> \o rest.value, rest.pos)))

\* The variants of IOCpTag, each a record of its fields.
CpUtf8(len, bs) == [tag |-> "Utf8", length |-> len, bytes |-> bs]
CpBytes(name, bs) == [tag |-> name, bytes |-> bs]
CpOne(name, i) == [tag |-> name, index |-> i]
CpTwo(name, i, j) == [tag |-> name, first |-> i, second |-> j]

OneIndexTags == {"Class", "String", "MethodType", "Module", "Package"}
TwoIndexTags == {"FieldRef", "MethodRef", "InterfaceMethodRef", "NameAndType", "InvokeDynamic"}

\* The variant a tag byte selects in IOCpTag::read ("" for `_`).
TagName(t) ==
    CASE t = 1 -> "Utf8" [] t = 3 -> "Integer" [] t = 4 -> "Float" [] t = 5 -> "Long"
      [] t = 6 -> "Double" [] t = 7 -> "Class" [] t = 8 -> "String" [] t = 9 -> "FieldRef"
      [] t = 10 -> "MethodRef" [] t = 11 -> "InterfaceMethodRef" [] t = 12 -> "NameAndType"
      [] t = 15 -> "MethodHandle" [] t = 16 -> "MethodType" [] t = 18 -> "InvokeDynamic"
      [] t = 19 -> "Module" [] t = 20 -> "Package" [] OTHER -> ""

\* IOCpTag::read, the arm of the variant `name`
cp_read_arm(buf, pos, name) ==
    IF name = "Utf8" THEN
        Try(read_int(buf, pos, "u16"), LAMBDA len:
        Try(ReadU8s(buf, len.pos, len.value), LAMBDA bs:
        ROk(CpUtf8(len.value, bs.value), bs.pos)))
    ELSE IF name \in {"Integer", "Float", "Long", "Double"} THEN
        Try(read_n_bytes(buf, pos, IF name \in {"Integer", "Float"} THEN 4 ELSE 8), LAMBDA bs:
        ROk(CpBytes(name, bs.value), bs.pos))
    ELSE IF name \in OneIndexTags \cup TwoIndexTags \cup {"MethodHandle"} THEN
        Try(ReadSeq(buf, pos, IF name \in OneIndexTags THEN << "u16" >>
                              ELSE IF name \in TwoIndexTags THEN << "u16", "u16" >>
                              ELSE << "u8", "u16" >>), LAMBDA r:
        ROk(IF name \in OneIndexTags THEN CpOne(name, r.value[1])
            ELSE CpTwo(name, r.value[1], r.value[2]), r.pos))
    ELSE RErr("panic", pos)

\* IOCpTag::read
cp_read(buf, pos) ==
    Try(read_int(buf, pos, "u8"), LAMBDA t: cp_read_arm(buf, t.pos, TagName(t.value)))

\* IOCpTag::id
id(e) ==
    CASE e.tag = "Utf8" -> 1 [] e.tag = "Integer" -> 3 [] e.tag = "Float" -> 4
      [] e.tag = "Long" -> 5 [] e.tag = "Double" -> 6 [] e.tag = "Class" -> 7
      [] e.tag = "String" -> 8 [] e.tag = "FieldRef" -> 9 [] e.tag = "MethodRef" -> 10
      [] e.tag = "InterfaceMethodRef" -> 11 [] e.tag = "NameAndType" -> 12
      [] e.tag = "MethodHandle" -> 15 [] e.tag = "MethodType" -> 16
      [] e.tag = "InvokeDynamic" -> 18 [] e.tag = "Module" -> 19 [] e.tag = "Package" -> 19

U8(v) == to_be_bytes("u8", v)
U16(v) == to_be_bytes("u16", v)
U32(v) == to_be_bytes("u32", v)

\* IOCpTag::write
cp_write(e) ==
    U8(id(e)) \o
    (IF e.tag = "Utf8" THEN U16(e.length) \o e.bytes
     ELSE IF e.tag \in {"Integer", "Float", "Long", "Double"} THEN e.bytes
     ELSE IF e.tag \in OneIndexTags THEN U16(e.index)
     ELSE IF e.tag = "MethodHandle" THEN U8(e.first) \o U16(e.second)
     ELSE U16(e.first) \o U16(e.second))

-----------------------------------------------------------------------------
(* maya-classfile-io: attributes, fields, methods *)

\* `attribute_length as usize`.  Lengths of 2^30 and more all stand for 2^30:
\* every buffer here is shorter.
AsUsize(v) == IF v[1] >= 16384 THEN 1073741824 ELSE v[1] * 65536 + v[2]

\* IOAttributeInfo::read keeping one byte less of the payload than it read.
attr_read_short(buf, pos) ==
    Try(read_int(buf, pos, "u16"), LAMBDA name:
    Try(read_int(buf, name.pos, "u32"), LAMBDA len:
    Try(read_n_bytes(buf, len.pos, AsUsize(len.value)), LAMBDA info:
    ROk([attribute_name_index |-> name.value,
         attribute_length |-> len.value,
         info |-> SubSeq(info.value, 2, Len(info.value))], info.pos))))

\* IOAttributeInfo::read
attr_read(buf, pos) ==
    Try(read_int(buf, pos, "u16"), LAMBDA name:
    Try(read_int(buf, name.pos, "u32"), LAMBDA len:
    Try(read_n_bytes(buf, len.pos, AsUsize(len.value)), LAMBDA info:
    ROk([attribute_name_index |-> name.value,
         attribute_length |-> len.value,
         info |-> info.value], info.pos))))

\* `for _ in 0..attributes_count { attributes.push(IOAttributeInfo::read(buffer)?) }`
RECURSIVE attrs_read(_, _, _)
attrs_read(buf, pos, n) ==
    IF n = 0 THEN ROk(<< >>, pos)
    ELSE Try(attr_read(buf, pos), LAMBDA r:
         Try(attrs_read(buf, r.pos, n - 1), LAMBDA rest:
         ROk(<< r.value >> \o rest.value, rest.pos)))

\* IOFieldInfo::read and IOMethodInfo::read (the same body)
member_read(buf, pos) ==
    Try(ReadSeq(buf, pos, << "u16", "u16", "u16", "u16" >>), LAMBDA h:
    Try(attrs_read(buf, h.pos, h.value[4]), LAMBDA as:
    ROk([access_flags |-> h.value[1],
         name_index |-> h.value[2],
         descriptor_index |-> h.value[3],
         attributes_count |-> h.value[4],
         attributes |-> as.value], as.pos)))

RECURSIVE Flatten(_)
Flatten(ss) == IF ss = << >> THEN << >> ELSE Head(ss) \o Flatten(Tail(ss))

\* IOAttributeInfo::write
attr_write(a) == U16(a.attribute_name_index) \o U32(a.attribute_length) \o a.info

\* IOFieldInfo::write and IOMethodInfo::write (the same body)
member_write(m) ==
    U16(m.access_flags) \o U16(m.name_index) \o U16(m.descriptor_index)
        \o U16(m.attributes_count)
        \o Flatten([i \in 1 .. Len(m.attributes) |-> attr_write(m.attributes[i])])

\* IOClassFile::write
classfile_write(c) ==
    U32(c.magic) \o U16(c.minor_version) \o U16(c.major_version) \o U16(c.cp_count)
        \o Flatten([i \in 1 .. Len(c.cp) |-> cp_write(c.cp[i])])
        \o U16(c.access_flags) \o U16(c.this_class) \o U16(c.super_class)
        \o U16(c.interface_count)
        \o Flatten([i \in 1 .. Len(c.interfaces) |-> U16(c.interfaces[i])])
        \o U16(c.field_count)
        \o Flatten([i \in 1 .. Len(c.fields) |-> member_write(c.fields[i])])
        \o U16(c.method_count)
        \o Flatten([i \in 1 .. Len(c.methods) |-> member_write(c.methods[i])])
        \o U16(c.attribute_count)
        \o Flatten([i \in 1 .. Len(c.attributes) |-> attr_write(c.attributes[i])])

Magic == << \hCAFE, \hBABE >>

\* The magic number read without the comparison.
read_magic_unchecked(buf, pos) == read_int(buf, pos, "u32")

\* IOClassFile::read, its first two statements: read_u32, then
\* `if magic != 0xCAFEBABE { return Err(InvalidMagic) }`.
read_magic(buf, pos) ==
    Try(read_int(buf, pos, "u32"), LAMBDA r:
    IF r.value # Magic THEN RErr("InvalidMagic", r.pos) ELSE r)

-----------------------------------------------------------------------------
(* maya-classfile-ir: the constant pool *)

IROk(v) == [kind |-> "Ok", value |-> v]
IRFail(k) == [kind |-> k, value |-> << >>]

\* IRMethodRefKind::from
IRMethodRefKind_from(value) == IF value \in 1 .. 9 THEN IROk(value) ELSE IRFail("panic")

\* CPUtf8Ref::new
CPUtf8Ref_new(index, utf8_tag) ==
    IF utf8_tag.tag = "Utf8" THEN IROk([data |-> utf8_tag.data, index |-> index])
    ELSE IRFail("panic")

\* IRCpTag::Utf8(Rc::new(maya_mutf8::decode(bytes)?))
IRUtf8(d) ==
    IF d.kind = "Ok" THEN IROk([tag |-> "Utf8", data |-> d.string]) ELSE IRFail("Mutf8")

\* `match .. { IRCpTag::NameAndType { name, descriptor } => (name, descriptor),
\* t => panic!(..) }` and the CPNameAndTypeRef made of it
CPNameAndTypeRef(index, t) ==
    IF t.tag = "NameAndType"
    THEN IROk([index |-> index, name |-> t.name, ty |-> t.descriptor])
    ELSE IRFail("panic")

RECURSIVE parse_tag(_, _, _, _), parse_tag_idx(_, _, _, _)

\* parse_tag_idx! without the call of parse_tag: only what is already formed.
parse_tag_idx_formed_only(index, raw_tags, formed_tags, depth) ==
    IF index = 0 \/ index > Len(formed_tags) THEN IRFail("panic")
    ELSE IROk(formed_tags[index])

\* parse_tag_idx!: formed_tags.get(idx - 1).cloned().or(Some(parse_tag(
\* &raw_tags[idx - 1], ..)?)).  `or` takes a value: parse_tag is called whether
\* or not the entry is already formed.  idx = 0 and idx > raw_tags.len() panic.
parse_tag_idx(index, raw_tags, formed_tags, depth) ==
    IF index = 0 \/ index > Len(raw_tags) THEN IRFail("panic")
    ELSE Try(parse_tag(raw_tags[index], raw_tags, formed_tags, depth + 1), LAMBDA p:
         IROk(IF index <= Len(formed_tags) THEN formed_tags[index] ELSE p.value))

\* IRCpTag::parse_tag.  depth counts the calls on the stack: more of them than
\* there are entries is a cycle, which the code follows until the stack
\* overflows.
parse_tag(tag, raw_tags, formed_tags, depth) ==
    IF depth > Len(raw_tags) THEN IRFail("stack overflow")
    ELSE IF tag.tag = "Utf8" THEN IRUtf8(decode(tag.bytes))
    ELSE IF tag.tag = "Integer" THEN IROk([tag |-> "Integer", value |-> from_be_bytes("i32", tag.bytes)])
    ELSE IF tag.tag = "Float" THEN IROk([tag |-> "Float", value |-> from_be_bytes("f32", tag.bytes)])
    ELSE IF tag.tag = "Long" THEN IROk([tag |-> "Long", value |-> from_be_bytes("i64", tag.bytes)])
    ELSE IF tag.tag = "Double" THEN IROk([tag |-> "Double", value |-> from_be_bytes("f64", tag.bytes)])
    ELSE IF tag.tag \in OneIndexTags THEN
        Try(parse_tag_idx(tag.index, raw_tags, formed_tags, depth), LAMBDA t:
        Try(CPUtf8Ref_new(tag.index, t.value), LAMBDA r:
        IROk([tag |-> tag.tag, ref |-> r.value])))
    ELSE IF tag.tag = "NameAndType" THEN
        Try(parse_tag_idx(tag.first, raw_tags, formed_tags, depth), LAMBDA name_tag:
        Try(parse_tag_idx(tag.second, raw_tags, formed_tags, depth), LAMBDA descriptor_tag:
        Try(CPUtf8Ref_new(tag.first, name_tag.value), LAMBDA name:
        Try(CPUtf8Ref_new(tag.second, descriptor_tag.value), LAMBDA descriptor:
        IROk([tag |-> "NameAndType", name |-> name.value,
              descriptor |-> descriptor.value])))))
    ELSE IF tag.tag = "MethodHandle" THEN
        Try(IRMethodRefKind_from(tag.first), LAMBDA kind:
        Try(parse_tag_idx(tag.second, raw_tags, formed_tags, depth), LAMBDA t:
        IROk([tag |-> "MethodHandle", ref_kind |-> kind.value, ref_index |-> tag.second,
              ref_tag |-> t.value])))
    ELSE \* FieldRef, MethodRef, InterfaceMethodRef, InvokeDynamic
        Try(parse_tag_idx(tag.second, raw_tags, formed_tags, depth), LAMBDA t:
        Try(CPNameAndTypeRef(tag.second, t.value), LAMBDA r:
        IROk([tag |-> tag.tag, first |-> tag.first, name_and_ty |-> r.value])))

(* maya-classfile-ir: attributes *)

\* The names IRAttribute::new matches, as the chars of name.data.

Str_ConstantValue == << 67, 111, 110, 115, 116, 97, 110, 116, 86, 97, 108,
    117, 101 >>
Str_Code == << 67, 111, 100, 101 >>
Str_StackMapTable == << 83, 116, 97, 99, 107, 77, 97, 112, 84, 97, 98, 108,
    101 >>
Str_Exceptions == << 69, 120, 99, 101, 112, 116, 105, 111, 110, 115 >>
Str_LineNumberTable == << 76, 105, 110, 101, 78, 117, 109, 98, 101, 114, 84,
    97, 98, 108, 101 >>
Str_SourceFile == << 83, 111, 117, 114, 99, 101, 70, 105, 108, 101 >>
Str_NestMembers == << 78, 101, 115, 116, 77, 101, 109, 98, 101, 114, 115 >>
Str_InnerClasses == << 73, 110, 110, 101, 114, 67, 108, 97, 115, 115, 101, 115
    >>
Str_Synthetic == << 83, 121, 110, 116, 104, 101, 116, 105, 99 >>
Str_Signature == << 83, 105, 103, 110, 97, 116, 117, 114, 101 >>
Str_NestHost == << 78, 101, 115, 116, 72, 111, 115, 116 >>
Str_MethodParameters == << 77, 101, 116, 104, 111, 100, 80, 97, 114, 97, 109,
    101, 116, 101, 114, 115 >>
Str_Deprecated == << 68, 101, 112, 114, 101, 99, 97, 116, 101, 100 >>
Str_RuntimeVisibleAnnotations == << 82, 117, 110, 116, 105, 109, 101, 86, 105,
    115, 105, 98, 108, 101, 65, 110, 110, 111, 116, 97, 116, 105, 111, 110,
    115 >>
Str_RuntimeInvisibleAnnotations == << 82, 117, 110, 116, 105, 109, 101, 73,
    110, 118, 105, 115, 105, 98, 108, 101, 65, 110, 110, 111, 116, 97, 116,
    105, 111, 110, 115 >>
Str_RuntimeVisibleParameterAnnotations == << 82, 117, 110, 116, 105, 109, 101,
    86, 105, 115, 105, 98, 108, 101, 80, 97, 114, 97, 109, 101, 116, 101, 114,
    65, 110, 110, 111, 116, 97, 116, 105, 111, 110, 115 >>
Str_RuntimeInvisibleParameterAnnotations == << 82, 117, 110, 116, 105, 109,
    101, 73, 110, 118, 105, 115, 105, 98, 108, 101, 80, 97, 114, 97, 109, 101,
    116, 101, 114, 65, 110, 110, 111, 116, 97, 116, 105, 111, 110, 115 >>

\* Option::None
None == [tag |-> "None"]

\* `cp.get(index as usize - 1).expect(..)` (and `.unwrap()`): the entry at
\* index, from 1.  Index 0 panics in every build: `0 - 1` panics where
\* overflow is checked and wraps to usize::MAX, which no pool holds, where it
\* is not.
cp_get(cp, index) == IF index \in 1 .. Len(cp) THEN IROk(cp[index]) ELSE IRFail("panic")

\* `cp.get(idx as usize).expect(..)` of the Exceptions arm: the entry after
\* the one idx names.
cp_get_next(cp, index) == IF index + 1 \in 1 .. Len(cp) THEN IROk(cp[index + 1]) ELSE IRFail("panic")

\* `cp.get(index.saturating_sub(1) as usize).unwrap()`: index 0 is taken for 1.
cp_get_saturating(cp, index) == cp_get(cp, IF index = 0 THEN 1 ELSE index)

\* CPClassRef::new
CPClassRef_new(index, utf8_tag) ==
    IF utf8_tag.tag = "Class" THEN IROk([data |-> utf8_tag.ref, index |-> index])
    ELSE IRFail("panic")

\* VerificationTypeInfo::read
VerificationTypeInfo_read(buf, pos) ==
    Try(read_int(buf, pos, "u8"), LAMBDA tag:
    IF tag.value = 0 THEN ROk([tag |-> "TopVariableInfo"], tag.pos)
    ELSE IF tag.value = 1 THEN ROk([tag |-> "IntegerVariableInfo"], tag.pos)
    ELSE IF tag.value = 2 THEN ROk([tag |-> "FloatVariableInfo"], tag.pos)
    ELSE IF tag.value = 4 THEN ROk([tag |-> "LongVariableInfo"], tag.pos)
    ELSE IF tag.value = 3 THEN ROk([tag |-> "DoubleVariableInfo"], tag.pos)
    ELSE IF tag.value = 5 THEN ROk([tag |-> "NullVariableInfo"], tag.pos)
    ELSE IF tag.value = 6 THEN ROk([tag |-> "UninitializedThisVariableInfo"], tag.pos)
    ELSE IF tag.value = 7 THEN
        Try(read_int(buf, tag.pos, "u16"), LAMBDA i:
        ROk([tag |-> "ObjectVariableInfo", cpool_idx |-> i.value], i.pos))
    ELSE IF tag.value = 8 THEN
        Try(read_int(buf, tag.pos, "u16"), LAMBDA o:
        ROk([tag |-> "UninitializedVariableInfo", offset |-> o.value], o.pos))
    ELSE RErr("panic", tag.pos))

\* The loop over the verification types, never entered.
ReadVerificationTypes_none(buf, pos, n) == ROk(<< >>, pos)

\* `for _ in 0..n { v.push(VerificationTypeInfo::read(attribute_data)?) }`
RECURSIVE ReadVerificationTypes(_, _, _)
ReadVerificationTypes(buf, pos, n) ==
    IF n = 0 THEN ROk(<< >>, pos)
    ELSE Try(VerificationTypeInfo_read(buf, pos), LAMBDA r:
         Try(ReadVerificationTypes(buf, r.pos, n - 1), LAMBDA rest:
         ROk(<< r.value >> \o rest.value, rest.pos)))

\* StackMapFrame::new.  `64 - frame_type` is a subtraction of u8s: for a
\* frame_type above 64 it panics in a build with overflow checks (checked) and wraps
\* modulo 256 in a build without.
StackMapFrame_new(buf, pos, checked) ==
    Try(read_int(buf, pos, "u8"), LAMBDA frame_type:
    IF frame_type.value \in 0 .. 63 THEN
        ROk([frame |-> "SameFrame", frame_type |-> frame_type.value,
             offset_delta |-> frame_type.value], frame_type.pos)
    ELSE IF frame_type.value \in 64 .. 127 THEN
        IF checked /\ 64 < frame_type.value THEN RErr("panic", frame_type.pos)
        ELSE Try(VerificationTypeInfo_read(buf, frame_type.pos), LAMBDA stack:
             ROk([frame |-> "SameLocals1StackItemFrame", frame_type |-> frame_type.value,
                  offset_delta |-> (64 - frame_type.value) % 256,
                  stack |-> stack.value], stack.pos))
    ELSE IF frame_type.value = 247 THEN
        Try(read_int(buf, frame_type.pos, "u16"), LAMBDA offset_delta:
        Try(VerificationTypeInfo_read(buf, offset_delta.pos), LAMBDA stack:
        ROk([frame |-> "SameLocals1StackItemFrameExtended", frame_type |-> frame_type.value,
             offset_delta |-> offset_delta.value, stack |-> stack.value], stack.pos)))
    ELSE IF frame_type.value \in 248 .. 250 THEN
        Try(read_int(buf, frame_type.pos, "u16"), LAMBDA offset_delta:
        ROk([frame |-> "ChopFrame", frame_type |-> frame_type.value,
             offset_delta |-> offset_delta.value], offset_delta.pos))
    ELSE IF frame_type.value = 251 THEN
        Try(read_int(buf, frame_type.pos, "u16"), LAMBDA offset_delta:
        ROk([frame |-> "SameFrameExtended", frame_type |-> frame_type.value,
             offset_delta |-> offset_delta.value], offset_delta.pos))
    ELSE IF frame_type.value \in 252 .. 254 THEN
        Try(read_int(buf, frame_type.pos, "u16"), LAMBDA offset_delta:
        Try(ReadVerificationTypes(buf, offset_delta.pos, frame_type.value - 251), LAMBDA locals:
        ROk([frame |-> "AppendFrame", frame_type |-> frame_type.value,
             offset_delta |-> offset_delta.value, locals |-> locals.value], locals.pos)))
    ELSE IF frame_type.value = 255 THEN
        Try(read_int(buf, frame_type.pos, "u16"), LAMBDA offset_delta:
        Try(read_int(buf, offset_delta.pos, "u16"), LAMBDA n_locals:
        Try(ReadVerificationTypes(buf, n_locals.pos, n_locals.value), LAMBDA locals:
        Try(read_int(buf, locals.pos, "u16"), LAMBDA n_stack:
        Try(ReadVerificationTypes(buf, n_stack.pos, n_stack.value), LAMBDA stack:
        ROk([frame |-> "FullFrame", frame_type |-> frame_type.value,
             offset_delta |-> offset_delta.value, locals |-> locals.value,
             stack |-> stack.value], stack.pos))))))
    ELSE RErr("panic", frame_type.pos))

\* `for _ in 0..n_entries { entries.push(StackMapFrame::new(data)?) }`
RECURSIVE ReadFrames(_, _, _, _)
ReadFrames(buf, pos, n, checked) ==
    IF n = 0 THEN ROk(<< >>, pos)
    ELSE Try(StackMapFrame_new(buf, pos, checked), LAMBDA r:
         Try(ReadFrames(buf, r.pos, n - 1, checked), LAMBDA rest:
         ROk(<< r.value >> \o rest.value, rest.pos)))

\* The Option of a reference: None for index 0.
OptionRef(index, r) == IF index = 0 THEN IROk(None) ELSE r

\* InnerClassesAttributeClass::new
InnerClassesAttributeClass_new(cp, buf, pos) ==
    Try(ReadSeq(buf, pos, << "u16", "u16", "u16", "u16" >>), LAMBDA f:
    Try(cp_get(cp, f.value[1]), LAMBDA inner_info_tag:
    Try(OptionRef(f.value[2], cp_get(cp, f.value[2])), LAMBDA outer_info_tag:
    Try(OptionRef(f.value[3], cp_get(cp, f.value[3])), LAMBDA inner_name_tag:
    Try(CPClassRef_new(f.value[1], inner_info_tag.value), LAMBDA inner_class_info:
    Try(OptionRef(f.value[2], CPClassRef_new(f.value[2], outer_info_tag.value)), LAMBDA outer_class_info:
    Try(OptionRef(f.value[3], CPUtf8Ref_new(f.value[3], inner_name_tag.value)), LAMBDA inner_name:
    ROk([inner_class_info |-> inner_class_info.value,
         outer_class_info |-> outer_class_info.value,
         inner_name |-> inner_name.value,
         inner_class_access_flags |-> f.value[4]], f.pos))))))))

\* `for _ in 0..n_classes { classes.push(InnerClassesAttributeClass::new(cp, data)?) }`
RECURSIVE ReadInnerClasses(_, _, _, _)
ReadInnerClasses(cp, buf, pos, n) ==
    IF n = 0 THEN ROk(<< >>, pos)
    ELSE Try(InnerClassesAttributeClass_new(cp, buf, pos), LAMBDA r:
         Try(ReadInnerClasses(cp, buf, r.pos, n - 1), LAMBDA rest:
         ROk(<< r.value >> \o rest.value, rest.pos)))

\* CodeAttributeException::new
CodeAttributeException_new(buf, pos) ==
    Try(ReadSeq(buf, pos, << "u16", "u16", "u16", "u16" >>), LAMBDA f:
    ROk([start_pc |-> f.value[1], end_pc |-> f.value[2], handler_pc |-> f.value[3],
         catch_type |-> f.value[4]], f.pos))

\* `for _ in 0..exception_table_len { .. CodeAttributeException::new(buffer)? }`
RECURSIVE ReadExceptionTable(_, _, _)
ReadExceptionTable(buf, pos, n) ==
    IF n = 0 THEN ROk(<< >>, pos)
    ELSE Try(CodeAttributeException_new(buf, pos), LAMBDA r:
         Try(ReadExceptionTable(buf, r.pos, n - 1), LAMBDA rest:
         ROk(<< r.value >> \o rest.value, rest.pos)))

\* LineNumberTableAttribute::new, its loop
RECURSIVE ReadLineNumbers(_, _, _)
ReadLineNumbers(buf, pos, n) ==
    IF n = 0 THEN ROk(<< >>, pos)
    ELSE Try(ReadSeq(buf, pos, << "u16", "u16" >>), LAMBDA r:
         Try(ReadLineNumbers(buf, r.pos, n - 1), LAMBDA rest:
         ROk(<< [start_pc |-> r.value[1], line_number |-> r.value[2]] >> \o rest.value,
             rest.pos)))

\* LineNumberTableAttribute::new
LineNumberTableAttribute_new(buf, pos) ==
    Try(read_int(buf, pos, "u16"), LAMBDA table_len:
    Try(ReadLineNumbers(buf, table_len.pos, table_len.value), LAMBDA t:
    ROk([line_number_table |-> t.value], t.pos)))

\* MethodParametersParam::new
MethodParametersParam_new(cp, buf, pos) ==
    Try(read_int(buf, pos, "u16"), LAMBDA name_index:
    Try(OptionRef(name_index.value, cp_get(cp, name_index.value)), LAMBDA t:
    Try(OptionRef(name_index.value, CPUtf8Ref_new(name_index.value, t.value)), LAMBDA name:
    Try(read_int(buf, name_index.pos, "u16"), LAMBDA access_flags:
    ROk([name |-> name.value, access_flags |-> access_flags.value], access_flags.pos)))))

\* `for _ in 0..n_params { parameters.push(MethodParametersParam::new(cp, data)?) }`
RECURSIVE ReadMethodParameters(_, _, _, _)
ReadMethodParameters(cp, buf, pos, n) ==
    IF n = 0 THEN ROk(<< >>, pos)
    ELSE Try(MethodParametersParam_new(cp, buf, pos), LAMBDA r:
         Try(ReadMethodParameters(cp, buf, r.pos, n - 1), LAMBDA rest:
         ROk(<< r.value >> \o rest.value, rest.pos)))

\* The tags of RuntimeAnnotationValue::new that carry one constant index:
\* B C D F I J S Z s.
ConstValueTags == { 66, 67, 68, 70, 73, 74, 83, 90, 115 }

RECURSIVE RuntimeAnnotationValue_new(_, _, _), ReadAnnotationValues(_, _, _, _)

\* RuntimeAnnotationValue::new ('e' is 101, 'c' 99, '@' 64, '[' 91)
RuntimeAnnotationValue_new(cp, buf, pos) ==
    Try(read_int(buf, pos, "u8"), LAMBDA tag:
    IF tag.value \in ConstValueTags THEN
        Try(read_int(buf, tag.pos, "u16"), LAMBDA i:
        ROk([value |-> "ConstValueIndex", index |-> i.value], i.pos))
    ELSE IF tag.value = 101 THEN
        Try(ReadSeq(buf, tag.pos, << "u16", "u16" >>), LAMBDA f:
        ROk([value |-> "EnumConstValue", type_name_index |-> f.value[1],
             const_name_index |-> f.value[2]], f.pos))
    ELSE IF tag.value = 99 THEN
        Try(read_int(buf, tag.pos, "u16"), LAMBDA i:
        ROk([value |-> "ClassInfoIndex", index |-> i.value], i.pos))
    ELSE IF tag.value = 64 THEN RErr("panic", tag.pos)
    ELSE IF tag.value = 91 THEN
        Try(read_int(buf, tag.pos, "u16"), LAMBDA n_values:
        Try(ReadAnnotationValues(cp, buf, n_values.pos, n_values.value), LAMBDA values:
        ROk([value |-> "ArrayValue", values |-> values.value], values.pos)))
    ELSE RErr("panic", tag.pos))

\* `for _ in 0..n_values { values.push(RuntimeAnnotationValue::new(cp, buffer)?) }`
ReadAnnotationValues(cp, buf, pos, n) ==
    IF n = 0 THEN ROk(<< >>, pos)
    ELSE Try(RuntimeAnnotationValue_new(cp, buf, pos), LAMBDA r:
         Try(ReadAnnotationValues(cp, buf, r.pos, n - 1), LAMBDA rest:
         ROk(<< r.value >> \o rest.value, rest.pos)))

\* RuntimeAnnotation::new, its loop over the element-value pairs
RECURSIVE ReadPairs(_, _, _, _)
ReadPairs(cp, buf, pos, n) ==
    IF n = 0 THEN ROk(<< >>, pos)
    ELSE Try(read_int(buf, pos, "u16"), LAMBDA name_idx:
         Try(cp_get(cp, name_idx.value), LAMBDA t:
         Try(CPUtf8Ref_new(name_idx.value, t.value), LAMBDA name:
         Try(RuntimeAnnotationValue_new(cp, buf, name_idx.pos), LAMBDA value:
         Try(ReadPairs(cp, buf, value.pos, n - 1), LAMBDA rest:
         ROk(<< [name |-> name.value, value |-> value.value] >> \o rest.value,
             rest.pos))))))

\* RuntimeAnnotation::new
RuntimeAnnotation_new(cp, buf, pos) ==
    Try(read_int(buf, pos, "u16"), LAMBDA ty_idx:
    Try(cp_get(cp, ty_idx.value), LAMBDA t:
    Try(CPUtf8Ref_new(ty_idx.value, t.value), LAMBDA ty:
    Try(read_int(buf, ty_idx.pos, "u16"), LAMBDA n_pairs:
    Try(ReadPairs(cp, buf, n_pairs.pos, n_pairs.value), LAMBDA pairs:
    ROk([ty |-> ty.value, pairs |-> pairs.value], pairs.pos))))))

\* `for _ in 0..n_annotations { annotations.push(RuntimeAnnotation::new(cp, data)?) }`
RECURSIVE ReadAnnotations(_, _, _, _)
ReadAnnotations(cp, buf, pos, n) ==
    IF n = 0 THEN ROk(<< >>, pos)
    ELSE Try(RuntimeAnnotation_new(cp, buf, pos), LAMBDA r:
         Try(ReadAnnotations(cp, buf, r.pos, n - 1), LAMBDA rest:
         ROk(<< r.value >> \o rest.value, rest.pos)))

\* `for _ in 0..n_params { let n_annotations = data.read_u16()?; .. params.push(annotations) }`
RECURSIVE ReadParameterAnnotations(_, _, _, _)
ReadParameterAnnotations(cp, buf, pos, n) ==
    IF n = 0 THEN ROk(<< >>, pos)
    ELSE Try(read_int(buf, pos, "u16"), LAMBDA n_annotations:
         Try(ReadAnnotations(cp, buf, n_annotations.pos, n_annotations.value), LAMBDA r:
         Try(ReadParameterAnnotations(cp, buf, r.pos, n - 1), LAMBDA rest:
         ROk(<< r.value >> \o rest.value, rest.pos))))

\* The Exceptions arm's loop
RECURSIVE ReadExceptions(_, _, _, _)
ReadExceptions(cp, buf, pos, n) ==
    IF n = 0 THEN ROk(<< >>, pos)
    ELSE Try(read_int(buf, pos, "u16"), LAMBDA i:
         Try(cp_get_next(cp, i.value), LAMBDA t:
         Try(CPUtf8Ref_new(i.value, t.value), LAMBDA r:
         Try(ReadExceptions(cp, buf, i.pos, n - 1), LAMBDA rest:
         ROk(<< r.value >> \o rest.value, rest.pos)))))

\* The NestMembers arm's loop
RECURSIVE ReadNestMembers(_, _, _, _)
ReadNestMembers(cp, buf, pos, n) ==
    IF n = 0 THEN ROk(<< >>, pos)
    ELSE Try(read_int(buf, pos, "u16"), LAMBDA i:
         Try(cp_get(cp, i.value), LAMBDA t:
         Try(CPClassRef_new(i.value, t.value), LAMBDA r:
         Try(ReadNestMembers(cp, buf, i.pos, n - 1), LAMBDA rest:
         ROk(<< r.value >> \o rest.value, rest.pos)))))

\* The ConstantValue arm's match on the entry
ConstantValueAttribute(cp_idx, tag) ==
    IF tag.tag = "Integer" THEN IROk([constant |-> "Int", cp_idx |-> cp_idx, value |-> tag.value])
    ELSE IF tag.tag = "Float" THEN IROk([constant |-> "Float", cp_idx |-> cp_idx, value |-> tag.value])
    ELSE IF tag.tag = "Long" THEN IROk([constant |-> "Long", cp_idx |-> cp_idx, value |-> tag.value])
    ELSE IF tag.tag = "Double" THEN IROk([constant |-> "Double", cp_idx |-> cp_idx, value |-> tag.value])
    ELSE IF tag.tag = "String" THEN IROk([constant |-> "String", ref |-> tag.ref])
    ELSE IRFail("panic")

\* The names IRAttribute::new has an arm for.
\* The names IRAttribute::name gives variants that IRAttribute::new has no arm
\* for: the variants exist in the enum and nothing constructs them.
Str_EnclosingMethod == << 69, 110, 99, 108, 111, 115, 105, 110, 103, 77, 101, 116, 104, 111, 100 >>
Str_AnnotationDefault == << 65, 110, 110, 111, 116, 97, 116, 105, 111, 110, 68, 101, 102, 97, 117, 108, 116 >>
Str_BootstrapMethods == << 66, 111, 111, 116, 115, 116, 114, 97, 112, 77, 101, 116, 104, 111, 100, 115 >>

NamedWithoutAnArm == { Str_EnclosingMethod, Str_AnnotationDefault, Str_BootstrapMethods }

\* The names IRAttribute::new has an arm for.
KnownAttributes ==
    { Str_ConstantValue,
      Str_Code,
      Str_StackMapTable,
      Str_Exceptions,
      Str_LineNumberTable,
      Str_SourceFile,
      Str_NestMembers,
      Str_InnerClasses,
      Str_Synthetic,
      Str_Signature,
      Str_NestHost,
      Str_MethodParameters,
      Str_Deprecated,
      Str_RuntimeVisibleAnnotations,
      Str_RuntimeInvisibleAnnotations,
      Str_RuntimeVisibleParameterAnnotations,
      Str_RuntimeInvisibleParameterAnnotations }

RECURSIVE IRAttribute_new(_, _, _, _, _), IRAttributeInfo_from_io(_, _, _),
          CodeAttribute_new(_, _, _, _), ReadCodeAttributes(_, _, _, _, _)

\* `for _ in 0..attribute_len { attributes.push(Box::new(IRAttributeInfo::from_io(cp,
\* IOAttributeInfo::read(buffer)?)?)) }`
ReadCodeAttributes(cp, buf, pos, n, checked) ==
    IF n = 0 THEN ROk(<< >>, pos)
    ELSE Try(attr_read(buf, pos), LAMBDA io:
         Try(IRAttributeInfo_from_io(cp, io.value, checked), LAMBDA r:
         Try(ReadCodeAttributes(cp, buf, io.pos, n - 1, checked), LAMBDA rest:
         ROk(<< r.value >> \o rest.value, rest.pos))))

\* CodeAttribute::new
CodeAttribute_new(cp, buf, pos, checked) ==
    Try(ReadSeq(buf, pos, << "u16", "u16", "u32" >>), LAMBDA f:
    Try(ReadU8s(buf, f.pos, AsUsize(f.value[3])), LAMBDA code:
    Try(read_int(buf, code.pos, "u16"), LAMBDA exception_table_len:
    Try(ReadExceptionTable(buf, exception_table_len.pos, exception_table_len.value), LAMBDA exception_table:
    Try(read_int(buf, exception_table.pos, "u16"), LAMBDA attribute_len:
    Try(ReadCodeAttributes(cp, buf, attribute_len.pos, attribute_len.value, checked), LAMBDA attributes:
    ROk([max_stack |-> f.value[1], max_locals |-> f.value[2], code |-> code.value,
         exception_table |-> exception_table.value,
         attributes |-> attributes.value], attributes.pos)))))))

\* IRAttribute::new.  pos is the cursor's position in data when it returns.
IRAttribute_new(name, cp, data, pos, checked) ==
    IF name.data = Str_ConstantValue THEN
        Try(read_int(data, pos, "u16"), LAMBDA cp_idx:
        Try(cp_get(cp, cp_idx.value), LAMBDA tag:
        Try(ConstantValueAttribute(cp_idx.value, tag.value), LAMBDA c:
        ROk([attr |-> "ConstantValue", value |-> c.value], cp_idx.pos))))
    ELSE IF name.data = Str_Code THEN
        Try(CodeAttribute_new(cp, data, pos, checked), LAMBDA c:
        ROk([attr |-> "Code", value |-> c.value], c.pos))
    ELSE IF name.data = Str_StackMapTable THEN
        Try(read_int(data, pos, "u16"), LAMBDA n_entries:
        Try(ReadFrames(data, n_entries.pos, n_entries.value, checked), LAMBDA entries:
        ROk([attr |-> "StackMapTable", entries |-> entries.value], entries.pos)))
    ELSE IF name.data = Str_Exceptions THEN
        Try(read_int(data, pos, "u16"), LAMBDA n_exceptions:
        Try(ReadExceptions(cp, data, n_exceptions.pos, n_exceptions.value), LAMBDA t:
        ROk([attr |-> "Exceptions", exception_index_table |-> t.value], t.pos)))
    ELSE IF name.data = Str_LineNumberTable THEN
        Try(LineNumberTableAttribute_new(data, pos), LAMBDA t:
        ROk([attr |-> "LineNumberTable", value |-> t.value], t.pos))
    ELSE IF name.data = Str_SourceFile THEN
        Try(read_int(data, pos, "u16"), LAMBDA index:
        Try(cp_get(cp, index.value), LAMBDA t:
        Try(CPUtf8Ref_new(index.value, t.value), LAMBDA tag:
        ROk([attr |-> "SourceFile", value |-> tag.value], index.pos))))
    ELSE IF name.data = Str_NestMembers THEN
        Try(read_int(data, pos, "u16"), LAMBDA n_classes:
        Try(ReadNestMembers(cp, data, n_classes.pos, n_classes.value), LAMBDA classes:
        ROk([attr |-> "NestMembers", classes |-> classes.value], classes.pos)))
    ELSE IF name.data = Str_InnerClasses THEN
        Try(read_int(data, pos, "u16"), LAMBDA n_classes:
        Try(ReadInnerClasses(cp, data, n_classes.pos, n_classes.value), LAMBDA classes:
        ROk([attr |-> "InnerClasses", classes |-> classes.value], classes.pos)))
    ELSE IF name.data = Str_Synthetic THEN ROk([attr |-> "Synthetic"], pos)
    ELSE IF name.data = Str_Signature THEN
        Try(read_int(data, pos, "u16"), LAMBDA i:
        Try(cp_get(cp, i.value), LAMBDA t:
        Try(CPUtf8Ref_new(i.value, t.value), LAMBDA r:
        ROk([attr |-> "Signature", value |-> r.value], i.pos))))
    ELSE IF name.data = Str_NestHost THEN
        Try(read_int(data, pos, "u16"), LAMBDA i:
        Try(cp_get(cp, i.value), LAMBDA t:
        Try(CPClassRef_new(i.value, t.value), LAMBDA r:
        ROk([attr |-> "NestHost", value |-> r.value], i.pos))))
    ELSE IF name.data = Str_MethodParameters THEN
        Try(read_int(data, pos, "u8"), LAMBDA n_params:
        Try(ReadMethodParameters(cp, data, n_params.pos, n_params.value), LAMBDA parameters:
        ROk([attr |-> "MethodParameters", parameters |-> parameters.value], parameters.pos)))
    ELSE IF name.data = Str_Deprecated THEN ROk([attr |-> "Deprecated"], pos)
    ELSE IF name.data = Str_RuntimeVisibleAnnotations THEN
        Try(read_int(data, pos, "u16"), LAMBDA n_annotations:
        Try(ReadAnnotations(cp, data, n_annotations.pos, n_annotations.value), LAMBDA annotations:
        ROk([attr |-> "RuntimeVisibleAnnotations", annotations |-> annotations.value],
            annotations.pos)))
    ELSE IF name.data = Str_RuntimeInvisibleAnnotations THEN
        Try(read_int(data, pos, "u16"), LAMBDA n_annotations:
        Try(ReadAnnotations(cp, data, n_annotations.pos, n_annotations.value), LAMBDA annotations:
        ROk([attr |-> "RuntimeInvisibleAnnotations", annotations |-> annotations.value],
            annotations.pos)))
    ELSE IF name.data = Str_RuntimeVisibleParameterAnnotations THEN
        Try(read_int(data, pos, "u8"), LAMBDA n_params:
        Try(ReadParameterAnnotations(cp, data, n_params.pos, n_params.value), LAMBDA params:
        ROk([attr |-> "RuntimeVisibleParameterAnnotations", params |-> params.value],
            params.pos)))
    ELSE IF name.data = Str_RuntimeInvisibleParameterAnnotations THEN
        Try(read_int(data, pos, "u8"), LAMBDA n_params:
        Try(ReadParameterAnnotations(cp, data, n_params.pos, n_params.value), LAMBDA params:
        ROk([attr |-> "RuntimeInvisibleParameterAnnotations", params |-> params.value],
            params.pos)))
    ELSE RErr("panic", pos)

\* IRAttributeInfo::from_io (io is its `raw`).  The cursor over raw.info is dropped when
\* IRAttribute::new returns: nothing looks at where it stands.
IRAttributeInfo_from_io(cp, io, checked) ==
    Try(cp_get(cp, io.attribute_name_index), LAMBDA t:
    Try(CPUtf8Ref_new(io.attribute_name_index, t.value), LAMBDA name:
    Try(IRAttribute_new(name.value, cp, io.info, 0, checked), LAMBDA attr:
    IROk([name |-> name.value, length |-> io.attribute_length, attr |-> attr.value]))))

\* `.map(|attr| IRAttributeInfo::from_io(cp, attr)).collect::<Result<Vec<_>, _>>()`
RECURSIVE AttributesFromIo(_, _, _)
AttributesFromIo(cp, attributes, checked) ==
    IF attributes = << >> THEN IROk(<< >>)
    ELSE Try(IRAttributeInfo_from_io(cp, Head(attributes), checked), LAMBDA r:
         Try(AttributesFromIo(cp, Tail(attributes), checked), LAMBDA rest:
         IROk(<< r.value >> \o rest.value)))

\* IRFieldInfo::from_io and IRMethodInfo::from_io (the same body)
IRFieldInfo_from_io(cp, f, checked) ==
    Try(cp_get(cp, f.name_index), LAMBDA n:
    Try(CPUtf8Ref_new(f.name_index, n.value), LAMBDA name:
    Try(cp_get(cp, f.descriptor_index), LAMBDA d:
    Try(CPUtf8Ref_new(f.descriptor_index, d.value), LAMBDA descriptor:
    Try(AttributesFromIo(cp, f.attributes, checked), LAMBDA attributes:
    IROk([access_flags |-> f.access_flags, name |-> name.value,
          descriptor |-> descriptor.value, attributes |-> attributes.value]))))))

\* IRCpTag::from_io: parse_tag for each entry of raw_tags in turn.
RECURSIVE cp_from_io(_, _)
cp_from_io(raw_tags, formed_tags) ==
    IF Len(formed_tags) = Len(raw_tags) THEN IROk(formed_tags)
    ELSE Try(parse_tag(raw_tags[Len(formed_tags) + 1], raw_tags, formed_tags, 0), LAMBDA t:
         cp_from_io(raw_tags, Append(formed_tags, t.value)))

-----------------------------------------------------------------------------
(* The codec's inputs *)

MaxStrLen == 2
MaxRawLen == 3

RECURSIVE Rep(_, _)
Rep(b, k) == IF k = 0 THEN << >> ELSE << b >> \o Rep(b, k - 1)

SeqsUpTo(S, k) == UNION { [1 .. m -> S] : m \in 0 .. k }

\* Unicode scalar values at the edges of encode's arms.
CodePoints ==
    { 0, \h41, \h7F, \h80, \h7FF, \h800, \h3030, \h7FFF, \h8000, \hFFFF,
      \h10000, \h10FFFF }

\* Strings: a short run of sample characters, alone or after a run of 'A's
\* that fills (or nearly fills) one 16-byte block.
Strings ==
    { Rep(\h41, k) \o t : k \in {0, Chunk - 1, Chunk}, t \in SeqsUpTo(CodePoints, MaxStrLen) }

\* The VM's own encoding of one character (its class-file format, 4.4.7):
\* nul as C0 80, 1-, 2- and 3-byte forms up to U+FFFF, and a supplementary
\* character as its surrogate pair, each half in 3-byte form.
VmChar(c) ==
    IF c = 0 THEN << \hC0, \h80 >>
    ELSE IF c <= \h7F THEN << c >>
    ELSE IF c <= \h7FF THEN << \hC0 + (c \div 64), \h80 + (c % 64) >>
    ELSE IF c <= \hFFFF THEN
        << \hE0 + (c \div 4096), \h80 + ((c \div 64) % 64), \h80 + (c % 64) >>
    ELSE
        << \hED, \hA0 + (((c \div 65536) - 1) % 16), \h80 + ((c \div 1024) % 64),
           \hED, \hB0 + ((c \div 64) % 16), \h80 + (c % 64) >>

RECURSIVE VmEncode(_)
VmEncode(s) == IF s = << >> THEN << >> ELSE VmChar(Head(s)) \o VmEncode(Tail(s))

\* Bytes at the edges of decode's arms.
ByteSamples == { \h00, \h41, \h80, \hC0, \hC2, \hE8, \hED, \hF0 }

\* A surrogate pair in 6-byte form cut short, alone or after a 3-byte form.
CutPairs ==
    { pre \o SubSeq(VmChar(\h10000), 1, n) :
        pre \in { << >>, << \hE8, \h80, \h80 >> }, n \in 1 .. 6 }

\* Arbitrary byte sequences: a short run of sample bytes, alone, after a run
\* of 'A's or before a full block of 'A's.
RawInputs ==
    { Rep(\h41, k[1]) \o t \o Rep(\h41, k[2]) :
        k \in { <<0, 0>>, <<Chunk - 1, 0>>, <<Chunk, 0>>, <<0, Chunk>> },
        t \in SeqsUpTo(ByteSamples, MaxRawLen) }
        \cup CutPairs

-----------------------------------------------------------------------------
(* The class-file reader's inputs *)

MaxPool == 2
MaxMembers == 1

\* One constant-pool entry of every kind (Utf8 twice: empty and "x").
SampleEntries ==
    { CpUtf8(0, << >>), CpUtf8(1, << \h78 >>),
      CpBytes("Integer", << 0, 0, 0, 5 >>), CpBytes("Float", << \h3F, \h80, 0, 0 >>),
      CpBytes("Long", << 0, 0, 0, 0, 0, 0, 0, 5 >>),
      CpBytes("Double", << \h3F, \hF0, 0, 0, 0, 0, 0, 0 >>),
      CpOne("Class", 1), CpOne("String", 1), CpOne("MethodType", 1),
      CpOne("Module", 1), CpOne("Package", 1),
      CpTwo("FieldRef", 1, 2), CpTwo("MethodRef", 1, 2),
      CpTwo("InterfaceMethodRef", 1, 2), CpTwo("NameAndType", 1, 2),
      CpTwo("InvokeDynamic", 0, 2), CpTwo("MethodHandle", 1, 2) }

\* A class: its pool and the number k of its interfaces, fields, methods and
\* attributes.
NoDesc == [pool |-> << >>, k |-> 0, wf |-> FALSE]
Descs == { [pool |-> p, k |-> k, wf |-> TRUE] :
             p \in SeqsUpTo(SampleEntries, MaxPool), k \in 0 .. MaxMembers }

\* The tag byte of each kind in the class-file format.
VmTag(name) ==
    CASE name = "Utf8" -> 1 [] name = "Integer" -> 3 [] name = "Float" -> 4
      [] name = "Long" -> 5 [] name = "Double" -> 6 [] name = "Class" -> 7
      [] name = "String" -> 8 [] name = "FieldRef" -> 9 [] name = "MethodRef" -> 10
      [] name = "InterfaceMethodRef" -> 11 [] name = "NameAndType" -> 12
      [] name = "MethodHandle" -> 15 [] name = "MethodType" -> 16
      [] name = "InvokeDynamic" -> 18 [] name = "Module" -> 19 [] name = "Package" -> 20

\* One entry as the format lays it out: the tag byte, then the payload.
VmEntry(e) ==
    << VmTag(e.tag) >> \o
    (IF e.tag = "Utf8" THEN U16(e.length) \o e.bytes
     ELSE IF e.tag \in {"Integer", "Float", "Long", "Double"} THEN e.bytes
     ELSE IF e.tag \in OneIndexTags THEN U16(e.index)
     ELSE IF e.tag = "MethodHandle" THEN << e.first >> \o U16(e.second)
     ELSE U16(e.first) \o U16(e.second))

\* The slots an entry takes: two for Long and Double.
Slots(e) == IF e.tag \in {"Long", "Double"} THEN 2 ELSE 1

RECURSIVE LogicalLen(_)
LogicalLen(pool) == IF pool = << >> THEN 0 ELSE Slots(Head(pool)) + LogicalLen(Tail(pool))

\* The i-th sample attribute: i payload bytes.
VmAttr(i) == [attribute_name_index |-> i + 1, attribute_length |-> << 0, i >>,
              info |-> Rep(i, i)]
VmAttrBytes(i) == U16(i + 1) \o U32(<< 0, i >>) \o Rep(i, i)

\* The i-th sample field or method: one attribute.
VmMember(i) == [access_flags |-> i, name_index |-> i, descriptor_index |-> i + 1,
                attributes_count |-> 1, attributes |-> << VmAttr(i) >>]
VmMemberBytes(i) == U16(i) \o U16(i) \o U16(i + 1) \o U16(1) \o VmAttrBytes(i)

\* The class file of d as the format lays it out.
VmBytes(d) ==
    U32(Magic) \o U16(0) \o U16(52) \o U16(LogicalLen(d.pool) + 1)
        \o Flatten([i \in 1 .. Len(d.pool) |-> VmEntry(d.pool[i])])
        \o U16(\h0021) \o U16(1) \o U16(2)
        \o U16(d.k) \o Flatten([i \in 1 .. d.k |-> U16(i)])
        \o U16(d.k) \o Flatten([i \in 1 .. d.k |-> VmMemberBytes(i)])
        \o U16(d.k) \o Flatten([i \in 1 .. d.k |-> VmMemberBytes(i)])
        \o U16(d.k) \o Flatten([i \in 1 .. d.k |-> VmAttrBytes(i - 1)])

\* First words that are not the magic number.
BadMagics == { << 0, 0 >>, << \hCAFE, \hBABF >>, << \hBABE, \hCAFE >>, << \hCAFE, 0 >> }

\* A minimal class file with its first four bytes replaced.
BadMagicFiles ==
    { U32(m) \o SubSeq(VmBytes([pool |-> << >>, k |-> 0, wf |-> TRUE]), 5, 24) : m \in BadMagics }

-----------------------------------------------------------------------------
(* The lifter's inputs *)

MaxLead == 2

Utf8x == CpUtf8(1, << \h78 >>)
Utf8y == CpUtf8(1, << \h79 >>)
Long5 == CpBytes("Long", << 0, 0, 0, 0, 0, 0, 0, 5 >>)
Double1 == CpBytes("Double", << \h3F, \hF0, 0, 0, 0, 0, 0, 0 >>)
Int5 == CpBytes("Integer", << 0, 0, 0, 5 >>)

\* Pools whose first entry is at logical slot b + 1; every index is the
\* logical slot of an entry of the kind the format asks for.
PoolsFrom(b) ==
    { << Utf8x, CpOne("Class", b + 1) >>,
      << CpOne("Class", b + 2), Utf8x >>,
      << Utf8x, Utf8y, CpOne("Class", b + 1) >>,
      << Utf8x, Utf8y, CpTwo("NameAndType", b + 1, b + 2), CpOne("Class", b + 1),
         CpTwo("FieldRef", b + 4, b + 3) >>,
      << Utf8x, Utf8y, CpTwo("NameAndType", b + 2, b + 1), CpOne("Class", b + 2),
         CpTwo("MethodRef", b + 4, b + 3), CpTwo("MethodHandle", 5, b + 5) >>,
      << Utf8x, Long5, Utf8y, CpTwo("NameAndType", b + 1, b + 4),
         CpTwo("InvokeDynamic", 0, b + 5) >>,
      << Utf8x, CpOne("String", b + 1), CpOne("MethodType", b + 1),
         CpOne("Module", b + 1), CpOne("Package", b + 1) >>,
      << Utf8x, Utf8y, CpTwo("NameAndType", b + 1, b + 2), CpOne("Class", b + 2),
         CpTwo("InterfaceMethodRef", b + 4, b + 3) >> }

\* The pools above behind up to MaxLead scalar entries.
IRPools ==
    UNION { { lead \o p : p \in PoolsFrom(LogicalLen(lead)) } :
            lead \in SeqsUpTo({Int5, Long5, Double1}, MaxLead) }

\* Pools in which an index resolves to an entry of another kind than the
\* format asks for (no Long or Double: slot n is the n-th entry).
WrongKindPools ==
    { << Int5, CpOne(t, 1) >> : t \in OneIndexTags }
    \cup { << CpOne(t, 2), Int5 >> : t \in OneIndexTags }
    \cup { << Utf8x, Int5, CpTwo("NameAndType", 1, 2) >>,
           << Int5, Utf8x, CpTwo("NameAndType", 1, 2) >>,
           << CpOne("Class", 2), CpOne("Class", 1) >> }
    \cup { << Utf8x, Utf8y, CpOne("Class", 1), CpTwo(t, 3, 1) >> :
             t \in {"FieldRef", "MethodRef", "InterfaceMethodRef"} }
    \cup { << Utf8x, Utf8y, CpTwo("InvokeDynamic", 0, 1) >> }
    \cup { << Utf8x, Utf8y, CpTwo("NameAndType", 1, 2), CpTwo(t, 1, 3) >> :
             t \in {"FieldRef", "MethodRef", "InterfaceMethodRef"} }

\* Pools whose references form a cycle: an entry that names itself, two that
\* name each other, alone or among well-formed entries.
CyclicPools ==
    { << CpOne("Class", 1) >>,
      << Utf8x, CpOne("Class", 2) >>,
      << CpOne("Class", 2), CpOne("Class", 1) >>,
      << CpTwo("NameAndType", 1, 1) >>,
      << Utf8x, CpTwo("NameAndType", 1, 2) >>,
      << CpTwo("MethodHandle", 1, 1) >>,
      << CpTwo("MethodHandle", 1, 2), CpTwo("MethodHandle", 1, 1) >>,
      << CpTwo("FieldRef", 1, 1) >>,
      << Utf8x, CpOne("String", 3), CpOne("String", 2) >> }

\* The entry at logical slot n of a pool: the slot after a Long or Double
\* holds nothing.
Unusable == [tag |-> "unusable"]

RECURSIVE LogicalSlot(_, _)
LogicalSlot(pool, n) ==
    IF pool = << >> \/ n < 1 THEN Unusable
    ELSE IF n = 1 THEN Head(pool)
    ELSE IF n <= Slots(Head(pool)) THEN Unusable
    ELSE LogicalSlot(Tail(pool), n - Slots(Head(pool)))

(* The attribute lifter's inputs *)

MaxPayload == 3

\* Payload bytes: counts and the pool's indices.
PayloadBytes == { 0, 1, 2, 4 }

\* Attribute names: the ones IRAttribute::new has an arm for, the ones only
\* IRAttribute::name knows, and "x".
AttrNames == KnownAttributes \cup NamedWithoutAnArm \cup { << \h78 >> }

\* The pool of an attribute named n: the name at 1, Utf8 "x" at 2, a Class
\* at 3, an Integer at 4 and the name of a nested attribute at 5.
AttrPool(n) ==
    << CpUtf8(Len(VmEncode(n)), VmEncode(n)), Utf8x, CpOne("Class", 2), Int5,
       CpUtf8(Len(VmEncode(Str_Deprecated)), VmEncode(Str_Deprecated)) >>

\* Frame tags at the edges of StackMapFrame::new's arms.
FrameTags == { 0, 1, 63, 64, 65, 127, 128, 200, 246, 247, 248, 251, 252, 255 }

\* StackMapTable payloads: one frame and what follows its tag (9 is no
\* verification type), two frames, and frames with locals and stack.
FramePayloads ==
    { << 0, 1, t >> \o tail : t \in FrameTags, tail \in SeqsUpTo({ 0, 1, 7, 9 }, MaxPayload) }
        \cup { << 0, 2, t1, t2 >> : t1, t2 \in { 0, 63, 128 } }
        \cup { << 0, 1, 255, 0, 0, 0, 1, 1, 0, 1, 7, 0, 2 >>,
               << 0, 1, 254, 0, 5, 1, 2, 8, 0, 0 >>,
               << 0, 1, 247, 0, 1, 7, 0, 3 >>,
               << 0, 1, 65, 1 >>, << 0, 1, 65, 1, 0 >> }

\* Payloads long enough for the arms with a structure of their own: Code
\* (alone, with an exception handler and a nested Deprecated attribute, with
\* a byte after it), annotations ('I' 73, 'e' 101, 'c' 99, '@' 64, '[' 91),
\* MethodParameters, InnerClasses, LineNumberTable; the EnclosingMethod of the
\* class at 3 with no method, and the AnnotationDefault 'I' with the Integer
\* at 4.
StructuredPayloads ==
    { << 0, 3, 0, 0 >>, << 73, 0, 4 >>,
      << 0, 1, 0, 1, 0, 0, 0, 1, 0, 0, 0, 0, 0 >>,
      << 0, 1, 0, 1, 0, 0, 0, 1, 0, 0, 1, 0, 0, 0, 1, 0, 1, 0, 0,
         0, 1, 0, 5, 0, 0, 0, 0 >>,
      << 0, 1, 0, 1, 0, 0, 0, 0, 0, 0, 0, 1, 0, 5, 0, 0, 0, 1, 0 >>,
      << 0, 1, 0, 1, 0, 0, 0, 1, 0, 0, 0, 0, 0, 0 >>,
      << 0, 1, 0, 2, 0, 1, 0, 2, 73, 0, 4 >>,
      << 0, 1, 0, 2, 0, 1, 0, 2, 91, 0, 2, 101, 0, 2, 0, 2, 99, 0, 3 >>,
      << 0, 1, 0, 2, 0, 1, 0, 2, 64 >>,
      << 1, 0, 1, 0, 2, 0, 0 >>,
      << 1, 0, 2, 0, 0 >>, << 1, 0, 0, 0, 0 >>,
      << 0, 1, 0, 3, 0, 0, 0, 2, 0, 0 >>, << 0, 1, 0, 3, 0, 3, 0, 0, 0, 0 >>,
      << 0, 1, 0, 0, 0, 1 >>, << 0, 1, 0, 3 >>, << 0, 1, 0, 1 >> }

Payloads == SeqsUpTo(PayloadBytes, MaxPayload) \cup StructuredPayloads

PayloadsFor(n) == IF n = Str_StackMapTable THEN Payloads \cup FramePayloads ELSE Payloads

\* The IOAttributeInfo IOAttributeInfo::read makes of a name index and a payload.
IOAttribute(i, info) ==
    [attribute_name_index |-> i, attribute_length |-> << 0, Len(info) >>, info |-> info]

(* The class lifter's inputs *)

MaxInterfaces == 2

\* In GoodPool: 0, a Class, a Utf8, and an index that is not below cp_count.
Indexes == { 0, 1, 2, 4 }

\* A Class at 1 named by the Utf8 at 2, and the name of an attribute at 3.
GoodPool ==
    << CpOne("Class", 2), Utf8x,
       CpUtf8(Len(VmEncode(Str_Deprecated)), VmEncode(Str_Deprecated)) >>

\* Pools with an index that is 0 or out of range, with a reference cycle, and
\* with Utf8 bytes that are not modified UTF-8 (a continuation byte first, a
\* leader with nothing after it, a raw nul).
BadPools ==
    { << CpOne("Class", i), Utf8x, GoodPool[3] >> : i \in { 0, 4 } }
        \cup { << GoodPool[1], GoodPool[2], GoodPool[3], CpTwo("NameAndType", i, 2) >> :
               i \in { 0, 5 } }
        \cup { << GoodPool[1], GoodPool[2], GoodPool[3], CpTwo("MethodHandle", 1, i) >> :
               i \in { 0, 5 } }
        \cup { << CpOne("Class", 1), Utf8x, GoodPool[3] >> }
        \cup { << CpOne("Class", 2), CpUtf8(Len(bs), bs), GoodPool[3] >> :
               bs \in { << \h80 >>, << \hC2 >>, << 0 >> } }
        \cup { << GoodPool[1], GoodPool[2], GoodPool[3], CpUtf8(1, << \hF0 >>) >> }

\* An IOFieldInfo or IOMethodInfo
Member(name, descriptor, attributes) ==
    [access_flags |-> 1, name_index |-> name, descriptor_index |-> descriptor,
     attributes |-> attributes]

GoodMember == Member(2, 2, << IOAttribute(3, << >>) >>)

Members ==
    { Member(i, 2, << >>) : i \in Indexes }
        \cup { Member(2, i, << >>) : i \in Indexes }
        \cup { Member(2, 2, << IOAttribute(i, << >>) >>) : i \in { 0, 1, 3, 4 } }

GoodClass ==
    [cp |-> GoodPool, this_class |-> 1, super_class |-> 1, interfaces |-> << 1 >>,
     fields |-> << GoodMember >>, methods |-> << GoodMember >>,
     attributes |-> << IOAttribute(3, << >>) >>]

\* GoodClass with one of its parts changed.
Classes ==
    { [GoodClass EXCEPT !.this_class = i] : i \in Indexes }
        \cup { [GoodClass EXCEPT !.super_class = i] : i \in Indexes }
        \cup { [GoodClass EXCEPT !.interfaces = s] : s \in SeqsUpTo(Indexes, MaxInterfaces) }
        \cup { [GoodClass EXCEPT !.fields = << m >>] : m \in Members }
        \cup { [GoodClass EXCEPT !.methods = << m >>] : m \in Members }
        \cup { [GoodClass EXCEPT !.fields = << GoodMember, GoodMember >>, !.methods = << >>] }
        \cup { [GoodClass EXCEPT !.attributes = << IOAttribute(i, info) >>] :
               i \in { 0, 1, 2, 3, 4 }, info \in { << >>, << 0 >> } }
        \cup { [GoodClass EXCEPT !.cp = p] : p \in BadPools }
        \cup { [GoodClass EXCEPT !.cp = p, !.this_class = i] : p \in BadPools, i \in { 0, 4 } }

-----------------------------------------------------------------------------
(* The byte substrate's inputs *)

MaxWrites == 1
MaxAmount == 5

I32Min == -2147483647 - 1

\* MIN and MAX of every type (the VALUES of define_test!), and one value
\* whose bytes all differ.
Values(ty) ==
    CASE ty = "i8" -> {-128, 127, 1}
      [] ty = "u8" -> {0, 255, 1}
      [] ty = "i16" -> {-32768, 32767, \h0102}
      [] ty = "u16" -> {0, 65535, \h0102}
      [] ty = "i32" -> {I32Min, 2147483647, \h01020304}
      [] ty = "u32" -> { <<0, 0>>, <<\hFFFF, \hFFFF>>, <<\hCAFE, \hBABE>> }
      [] ty = "i64" -> { <<\h8000, 0, 0, 0>>, <<\h7FFF, \hFFFF, \hFFFF, \hFFFF>> }
      [] ty = "u64" -> { <<0, 0, 0, 0>>, <<\hFFFF, \hFFFF, \hFFFF, \hFFFF>>,
                         <<\h0102, \h0304, \h0506, \h0708>> }
      [] ty = "f32" -> { <<\h7F7F, \hFFFF>>, <<\hFF7F, \hFFFF>> }
      [] ty = "f64" -> { <<\h7FEF, \hFFFF, \hFFFF, \hFFFF>>, <<\hFFEF, \hFFFF, \hFFFF, \hFFFF>> }

NoWrite == [ty |-> "none", v |-> 0, at |-> 0, end |-> 0]
NoRead == [op |-> "none", ty |-> "none", need |-> 0, from |-> 0, ret |-> RErr("none", 0)]

-----------------------------------------------------------------------------
(* A component that takes no part in a behaviour rests in its idle state *)

NoResult == [kind |-> "none", err |-> "none", n |-> 0, string |-> << >>]

IdleCodec ==
    /\ origin = "none" /\ string = << >> /\ input = << >> /\ idx = 0 /\ output = << >>
    /\ result = NoResult /\ reencoded = << >> /\ cpc = "idle"

EmptyClassFile ==
    [magic |-> << 0, 0 >>, minor_version |-> 0, major_version |-> 0, cp_count |-> 0,
     cp |-> << >>, access_flags |-> 0, this_class |-> 0, super_class |-> 0,
     interface_count |-> 0, interfaces |-> << >>, field_count |-> 0, fields |-> << >>,
     method_count |-> 0, methods |-> << >>, attribute_count |-> 0, attributes |-> << >>]

IdleIO ==
    /\ desc = NoDesc /\ file = << >> /\ fpos = 0 /\ cf = EmptyClassFile /\ ioret = "none"
    /\ out = << >> /\ iopc = "idle"

IdleIR == raw = << >> /\ formed = << >> /\ irret = "none" /\ irpc = "idle"

IdleBytes ==
    /\ buffer = << >> /\ position = 0 /\ nwrites = MaxWrites /\ wrote = NoWrite
    /\ last = NoRead

NoAttribute == [attribute_name_index |-> 0, attribute_length |-> << 0, 0 >>, info |-> << >>]

IdleAttr ==
    /\ attr_cp = << >> /\ attr_raw = NoAttribute /\ attr_name = None /\ attr_pos = 0
    /\ attr_n = 0 /\ attr_entries = << >> /\ attr_out = None /\ attr_ret = "none"
    /\ attr_pc = "idle"

NoClass ==
    [cp |-> << >>, this_class |-> 0, super_class |-> 0, interfaces |-> << >>,
     fields |-> << >>, methods |-> << >>, attributes |-> << >>]

NoIRClass ==
    [cp |-> << >>, this_class |-> None, super_class |-> None, interfaces |-> << >>,
     fields |-> << >>, methods |-> << >>, attributes |-> << >>]

IdleClass == cls_raw = NoClass /\ cls_ir = NoIRClass /\ cls_ret = "none" /\ cls_pc = "idle"

\* The parser has no tokens.
IdleParse ==
    /\ tokens = << >> /\ token_idx = 0 /\ methods = << >> /\ modifiers = << >>
    /\ instructions = << >> /\ spins = 0 /\ parse_ret = "none" /\ parse_pc = "idle"

\* The other components have nothing to lift or to parse, in either build.
IdleLift == IdleAttr /\ IdleClass /\ IdleParse /\ overflow_checks \in BOOLEAN

-----------------------------------------------------------------------------
(* The codec as a state machine *)

InitCodec ==
    /\ IdleBytes
    /\ IdleIO
    /\ IdleIR
    /\ IdleLift
    /\ idx = 0
    /\ output = << >>
    /\ result = NoResult
    /\ reencoded = << >>
    /\ \/ origin = "str" /\ string \in Strings /\ input = << >> /\ cpc = "encode"
       \/ origin = "vm" /\ string \in Strings /\ input = VmEncode(string) /\ cpc = "fast"
       \/ origin = "raw" /\ string = << >> /\ input \in RawInputs /\ cpc = "fast"

St == [idx |-> idx, output |-> output, err |-> "none", n |-> 0]

\* encode(string)
Encode ==
    /\ cpc = "encode"
    /\ input' = encode(string)
    /\ cpc' = "fast"
    /\ UNCHANGED <<origin, string, idx, output, result, reencoded, notCodec>>

\* decode: one pass through `while idx + 16 <= len`
DecodeFast ==
    /\ cpc = "fast"
    /\ IF FastGuard(input, St) /\ is_ascii(input, idx)
       THEN /\ idx' = FastStep(input, St).idx
            /\ output' = FastStep(input, St).output
            /\ cpc' = "fast"
       ELSE /\ cpc' = "slow"
            /\ UNCHANGED <<idx, output>>
    /\ UNCHANGED <<origin, string, input, result, reencoded, notCodec>>

\* decode: one pass through `while idx < len`
DecodeSlow ==
    /\ cpc = "slow"
    /\ IF SlowGuard(input, St)
       THEN LET st == SlowStep(input, St)
            IN  /\ idx' = st.idx
                /\ output' = st.output
                /\ IF st.err # "none"
                   THEN result' = Err(st.err, st.n) /\ cpc' = "returned"
                   ELSE UNCHANGED <<result, cpc>>
       ELSE /\ cpc' = "utf8"
            /\ UNCHANGED <<idx, output, result>>
    /\ UNCHANGED <<origin, string, input, reencoded, notCodec>>

\* decode: Ok(String::from_utf8(output)?)
DecodeFinish ==
    /\ cpc = "utf8"
    /\ result' = Finish(St)
    /\ cpc' = "returned"
    /\ UNCHANGED <<origin, string, input, idx, output, reencoded, notCodec>>

\* encode(&decoded) on a successful decode
Reencode ==
    /\ cpc = "returned"
    /\ result.kind = "Ok"
    /\ reencoded' = encode(result.string)
    /\ cpc' = "done"
    /\ UNCHANGED <<origin, string, input, idx, output, result, notCodec>>

NextCodec == Encode \/ DecodeFast \/ DecodeSlow \/ DecodeFinish \/ Reencode


-----------------------------------------------------------------------------
(* Properties of the codec *)

Returned == cpc \in {"returned", "done"}

Range(s) == { s[i] : i \in 1 .. Len(s) }

\* C2: for every Unicode string s, decode(encode(s)) returns Ok(s).
C2_DecodeEncodeRoundTrip ==
    (origin = "str" /\ Returned) => result = Ok(string)

\* C3: for every well-formed modified-UTF-8 input b as the VM produces it,
\* decode(b) succeeds and encode(decode(b)) equals b.
C3_EncodeDecodeRoundTrip ==
    (origin = "vm" /\ Returned) =>
        /\ result.kind = "Ok"
        /\ cpc = "done" => reencoded = input

\* The position (1-based) of the first raw 0x00 byte of bs, 0 if there is none.
FirstNul(bs) ==
    IF 0 \in Range(bs) THEN CHOOSE i \in 1 .. Len(bs) : bs[i] = 0 /\ \A j \in 1 .. i - 1 : bs[j] # 0
    ELSE 0

PlainAscii(bs) == \A i \in 1 .. Len(bs) : bs[i] >= 1 /\ bs[i] <= \h7F

\* C9: decode returns Err(NullByteInInput) for every input that contains a
\* raw 0x00 byte, wherever it stands (here: after nothing but plain ASCII, so
\* that no other error can come first), also in inputs of 16 bytes or more.
C9_RawNulRejected ==
    (Returned /\ FirstNul(input) > 0 /\ PlainAscii(SubSeq(input, 1, FirstNul(input) - 1)))
        => result = Err("NullByteInInput", 0)

\* The number of bytes the sequence cut off at the end of bs should have had
\* (2 or 3) when bs is plain ASCII followed by a lone leader 110xxxxx, or by a
\* leader 1110xxxx with at most one byte after it; 0 otherwise.
Truncated(bs) ==
    LET len == Len(bs)
    IN  IF len >= 1 /\ bs[len] \div 32 = 6 /\ PlainAscii(SubSeq(bs, 1, len - 1)) THEN 2
        ELSE IF len >= 1 /\ bs[len] \div 16 = 14 /\ PlainAscii(SubSeq(bs, 1, len - 1)) THEN 3
        ELSE IF len >= 2 /\ bs[len - 1] \div 16 = 14 /\ PlainAscii(SubSeq(bs, 1, len - 2)) THEN 3
        ELSE 0

\* C10: decode returns Err(CodepointBadInputLength(n)) whenever the input ends
\* before all continuation bytes of an n-byte sequence are present.
C10_TruncatedSequence ==
    (Returned /\ Truncated(input) > 0)
        => result = Err("CodepointBadInputLength", Truncated(input))

\* What the first faulty byte of bs is, going through bs one sequence after
\* the other (one byte below 0x80, two bytes after a leader 110xxxxx, three
\* after a leader 1110xxxx): "leader" when a sequence starts with a byte that
\* is no leader (0x80..=0xBF, 0xF0..=0xFF), "other" when a raw 0x00 or a
\* sequence cut short comes first, "none" when there is neither.
RECURSIVE FirstFault(_, _)
FirstFault(bs, i) ==
    IF i > Len(bs) THEN "none"
    ELSE IF bs[i] = 0 THEN "other"
    ELSE IF bs[i] < \h80 THEN FirstFault(bs, i + 1)
    ELSE IF bs[i] \div 32 = 6 THEN IF i + 1 > Len(bs) THEN "other" ELSE FirstFault(bs, i + 2)
    ELSE IF bs[i] \div 16 = 14 THEN IF i + 2 > Len(bs) THEN "other" ELSE FirstFault(bs, i + 3)
    ELSE "leader"

\* C11: decode returns Err(InvalidEncoding) whenever a sequence starts with a
\* byte that matches no leader pattern and no earlier byte caused an error.
C11_BadLeaderRejected ==
    (Returned /\ FirstFault(input, 1) = "leader") => result = Err("InvalidEncoding", 0)

\* The case table for a code point c <= 0xFFFF: C0 80 for nul, the byte
\* itself up to 0x7F, 110xxxxx 10xxxxxx up to 0x7FF, 1110xxxx 10xxxxxx
\* 10xxxxxx above.
CaseTable(c) ==
    IF c = 0 THEN << \hC0, \h80 >>
    ELSE IF c <= \h7F THEN << c >>
    ELSE IF c <= \h7FF THEN << \hC0 + (c \div 64), \h80 + (c % 64) >>
    ELSE << \hE0 + (c \div 4096), \h80 + ((c \div 64) % 64), \h80 + (c % 64) >>

\* encode has returned the encoding of `string`.
Encoded == origin = "str" /\ cpc # "encode"

\* C22: encode of a one-character string c <= 0xFFFF is the bytes of the case
\* table, and no output of encode holds a raw 0x00.
C22_EncodeFollowsCaseTable ==
    Encoded =>
        /\ (Len(string) = 1 /\ string[1] <= \hFFFF) => input = CaseTable(string[1])
        /\ \A k \in 1 .. Len(input) : input[k] # 0

\* The errors of MUTFError.
MUTFErrors == { "NullByteInInput", "CodepointBadInputLength", "InvalidEncoding", "FromUTF8Err" }

\* The indices the pass of decode about to run reads from input.
Reads ==
    IF cpc = "fast" /\ FastGuard(input, St) THEN FastReads(input, St)
    ELSE IF cpc = "slow" /\ SlowGuard(input, St) THEN SlowReads(input, St)
    ELSE { }

\* C29: decode is total: every read input[k] has k < input.len(), the 2-, 3-
\* and 6-byte look-aheads included; idx only grows and never passes
\* input.len(); and decode ends with Ok or with a MUTFError.
C29_DecodeIsTotal ==
    /\ [](/\ \A k \in Reads : k < Len(input)
          /\ idx <= Len(input)
          /\ Returned => \/ result.kind = "Ok"
                         \/ result.kind = "Err" /\ result.err \in MUTFErrors)
    /\ [][idx' >= idx]_vars

\* C29's case: decode has returned on an input that ends inside the second
\* half of a surrogate pair, where the look-ahead for b4, b5, b6 had two bytes
\* left to look at.
C29_Witness ==
    /\ origin = "raw"
    /\ cpc = "returned"
    /\ input = SubSeq(VmChar(\h10000), 1, 5)
    /\ idx = 4
    /\ result = Err("CodepointBadInputLength", 3)

-----------------------------------------------------------------------------
(* The byte substrate as a state machine: a Cursor over an initially empty *)
(* vector, written and read back as the crate's tests do.                  *)

InitBytes ==
    /\ IdleCodec
    /\ IdleIO
    /\ IdleIR
    /\ IdleLift
    /\ buffer = << >>
    /\ position = 0
    /\ nwrites = 0
    /\ wrote = NoWrite
    /\ last = NoRead

\* buffer.write_$ty(v)
Write(ty, v) ==
    /\ nwrites < MaxWrites
    /\ buffer' = write(buffer, position, ty, v)
    /\ position' = position + Len(to_be_bytes(ty, v))
    /\ nwrites' = nwrites + 1
    /\ wrote' = [ty |-> ty, v |-> v, at |-> position, end |-> position']
    /\ last' = NoRead
    /\ UNCHANGED notBytes

\* buffer.set_position(0)
SetPosition ==
    /\ position # 0
    /\ position' = 0
    /\ last' = NoRead
    /\ UNCHANGED <<buffer, nwrites, wrote, notBytes>>

\* buffer.read_$ty()
Read(ty) ==
    LET r == read(buffer, position, ty)
    IN  /\ last' = [op |-> "read", ty |-> ty, need |-> Width(ty), from |-> position, ret |-> r]
        /\ position' = r.pos
        /\ UNCHANGED <<buffer, nwrites, wrote, notBytes>>

\* buffer.read_n_bytes::<N>(), for the N the class-file reader uses
ReadNBytes(n) ==
    LET r == read_n_bytes(buffer, position, n)
    IN  /\ last' = [op |-> "read_n_bytes", ty |-> "none", need |-> n, from |-> position, ret |-> r]
        /\ position' = r.pos
        /\ UNCHANGED <<buffer, nwrites, wrote, notBytes>>

\* buffer.read_n_bytes_vec(amount)
ReadNBytesVec(n) ==
    LET r == read_n_bytes(buffer, position, n)
    IN  /\ last' = [op |-> "read_n_bytes_vec", ty |-> "none", need |-> n, from |-> position, ret |-> r]
        /\ position' = r.pos
        /\ UNCHANGED <<buffer, nwrites, wrote, notBytes>>

NextBytes ==
    \/ \E ty \in Types : \E v \in Values(ty) : Write(ty, v)
    \/ SetPosition
    \/ \E ty \in Types : Read(ty)
    \/ \E n \in {4, 8} : ReadNBytes(n)
    \/ \E n \in 0 .. MaxAmount : ReadNBytesVec(n)

\* C5: a length-checked read returns NotEnoughData when fewer bytes than it
\* asks for remain, and then leaves the position where it was; otherwise it
\* succeeds and consumes exactly the bytes it asked for.
C5_LengthCheckedRead ==
    last.op # "none" =>
        IF Len(buffer) - last.from < last.need
        THEN last.ret.kind = "NotEnoughData" /\ position = last.from
        ELSE last.ret.kind = "Ok" /\ position = last.from + last.need

\* A read that asked for more than was left, and one that was served.
C5_Witness ==
    /\ last.op = "read_n_bytes_vec"
    /\ last.ret.kind = "NotEnoughData"
    /\ Len(buffer) - last.from > 0

\* C6: write_<ty>(v) emits exactly Width(ty) bytes, and read_<ty> from where
\* they begin returns v.
C6_WriteReadRoundTrip ==
    /\ wrote.ty # "none" => wrote.end - wrote.at = Width(wrote.ty)
    /\ (last.op = "read" /\ last.ty = wrote.ty /\ last.from = wrote.at)
            => last.ret = ROk(wrote.v, wrote.end)

\* i64::MIN written and read back.
C6_Witness ==
    /\ last.op = "read" /\ last.ty = "i64" /\ wrote.ty = "i64" /\ last.from = wrote.at
    /\ wrote.v = <<\h8000, 0, 0, 0>>
    /\ last.ret.kind = "Ok"

-----------------------------------------------------------------------------
(* maya-classfile-io: IOClassFile::read and IOClassFile::write, step by step *)

\* A well-formed class file cut short.
Minimal == VmBytes([pool |-> << >>, k |-> 0, wf |-> TRUE])
CutFiles == { SubSeq(Minimal, 1, n) : n \in 0 .. Len(Minimal) - 1 }

\* A minimal class file whose header declares cp_count = 0, alone and with a
\* byte after it.
ZeroCountFiles ==
    { SubSeq(Minimal, 1, 8) \o U16(0) \o SubSeq(Minimal, 11, Len(Minimal)) \o tail :
      tail \in { << >>, << 0 >> } }

\* Tag bytes that select no variant.
UnknownTags == { 0, 2, 13, 14, 17, 21, 255 }

\* A class file whose pool holds, first or after a Utf8 entry, an entry with
\* an unknown tag.
UnknownTagFiles ==
    { U32(Magic) \o U16(0) \o U16(52) \o U16(Len(pre) + 2)
          \o Flatten([i \in 1 .. Len(pre) |-> VmEntry(pre[i])]) \o << t, 0, 1 >>
          \o SubSeq(Minimal, 11, Len(Minimal)) :
      pre \in { << >>, << CpUtf8(1, << \h78 >>) >> }, t \in UnknownTags }

InitIO ==
    /\ IdleCodec
    /\ IdleBytes
    /\ IdleIR
    /\ IdleLift
    /\ \/ desc \in Descs /\ file = VmBytes(desc)
       \/ desc = NoDesc /\ file \in BadMagicFiles \cup CutFiles \cup UnknownTagFiles \cup ZeroCountFiles
    /\ fpos = 0
    /\ cf = EmptyClassFile
    /\ ioret = "none"
    /\ out = << >>
    /\ iopc = "magic"

\* `?` on a failed read, a `return Err(..)`, or a panic: read is over.
Fail(r) ==
    /\ iopc' = "returned"
    /\ ioret' = r.kind
    /\ fpos' = r.pos
    /\ UNCHANGED cf

\* One statement (or loop iteration) of read: on Ok the class file takes the
\* value and read goes on at pc.
Step(r, Upd(_), pc) ==
    IF r.kind # "Ok" THEN Fail(r)
    ELSE /\ cf' = Upd(r.value)
         /\ fpos' = r.pos
         /\ iopc' = pc
         /\ UNCHANGED ioret

\* let magic = buffer.read_u32()?; if magic != 0xCAFEBABE { return Err(InvalidMagic) }
ReadMagic ==
    /\ iopc = "magic"
    /\ Step(read_magic(file, fpos), LAMBDA v: [cf EXCEPT !.magic = v], "header")
    /\ UNCHANGED <<desc, file, out, notIO>>

\* Vec::with_capacity(cp_count as usize - 1): a panic for cp_count = 0
with_capacity(r) == IF r.kind = "Ok" /\ r.value[3] = 0 THEN RErr("panic", r.pos) ELSE r

\* minor_version, major_version, cp_count; Vec::with_capacity(cp_count as usize - 1)
ReadHeader ==
    /\ iopc = "header"
    /\ Step(with_capacity(ReadSeq(file, fpos, << "u16", "u16", "u16" >>)),
            LAMBDA v: [cf EXCEPT !.minor_version = v[1], !.major_version = v[2],
                                 !.cp_count = v[3]],
            "cp")
    /\ UNCHANGED <<desc, file, out, notIO>>

\* for _ in 0..cp_count - 1 { cp.push(IOCpTag::read(buffer)?) }: one iteration
ReadCp ==
    /\ iopc = "cp"
    /\ Len(cf.cp) < cf.cp_count - 1
    /\ Step(cp_read(file, fpos), LAMBDA v: [cf EXCEPT !.cp = Append(@, v)], "cp")
    /\ UNCHANGED <<desc, file, out, notIO>>

\* access_flags, this_class, super_class, interface_count
ReadClassInfo ==
    /\ iopc = "cp"
    /\ Len(cf.cp) = cf.cp_count - 1
    /\ Step(ReadSeq(file, fpos, << "u16", "u16", "u16", "u16" >>),
            LAMBDA v: [cf EXCEPT !.access_flags = v[1], !.this_class = v[2],
                                 !.super_class = v[3], !.interface_count = v[4]],
            "interfaces")
    /\ UNCHANGED <<desc, file, out, notIO>>

\* for _ in 0..interface_count { interfaces.push(buffer.read_u16()?) }: one iteration
ReadInterface ==
    /\ iopc = "interfaces"
    /\ Len(cf.interfaces) < cf.interface_count
    /\ Step(read_int(file, fpos, "u16"),
            LAMBDA v: [cf EXCEPT !.interfaces = Append(@, v)], "interfaces")
    /\ UNCHANGED <<desc, file, out, notIO>>

\* let field_count = buffer.read_u16()?
ReadFieldCount ==
    /\ iopc = "interfaces"
    /\ Len(cf.interfaces) = cf.interface_count
    /\ Step(read_int(file, fpos, "u16"), LAMBDA v: [cf EXCEPT !.field_count = v], "fields")
    /\ UNCHANGED <<desc, file, out, notIO>>

\* for _ in 0..field_count { fields.push(IOFieldInfo::read(buffer)?) }: one iteration
ReadField ==
    /\ iopc = "fields"
    /\ Len(cf.fields) < cf.field_count
    /\ Step(member_read(file, fpos), LAMBDA v: [cf EXCEPT !.fields = Append(@, v)], "fields")
    /\ UNCHANGED <<desc, file, out, notIO>>

\* let method_count = buffer.read_u16()?
ReadMethodCount ==
    /\ iopc = "fields"
    /\ Len(cf.fields) = cf.field_count
    /\ Step(read_int(file, fpos, "u16"), LAMBDA v: [cf EXCEPT !.method_count = v], "methods")
    /\ UNCHANGED <<desc, file, out, notIO>>

\* for _ in 0..method_count { methods.push(IOMethodInfo::read(buffer)?) }: one iteration
ReadMethod ==
    /\ iopc = "methods"
    /\ Len(cf.methods) < cf.method_count
    /\ Step(member_read(file, fpos), LAMBDA v: [cf EXCEPT !.methods = Append(@, v)], "methods")
    /\ UNCHANGED <<desc, file, out, notIO>>

\* let attribute_count = buffer.read_u16()?
ReadAttributeCount ==
    /\ iopc = "methods"
    /\ Len(cf.methods) = cf.method_count
    /\ Step(read_int(file, fpos, "u16"),
            LAMBDA v: [cf EXCEPT !.attribute_count = v], "attributes")
    /\ UNCHANGED <<desc, file, out, notIO>>

\* for _ in 0..attribute_count { attributes.push(IOAttributeInfo::read(buffer)?) }:
\* one iteration
ReadAttribute ==
    /\ iopc = "attributes"
    /\ Len(cf.attributes) < cf.attribute_count
    /\ Step(attr_read(file, fpos),
            LAMBDA v: [cf EXCEPT !.attributes = Append(@, v)], "attributes")
    /\ UNCHANGED <<desc, file, out, notIO>>

\* Ok(Self { .. })
ReadReturn ==
    /\ iopc = "attributes"
    /\ Len(cf.attributes) = cf.attribute_count
    /\ iopc' = "returned"
    /\ ioret' = "Ok"
    /\ UNCHANGED <<desc, file, fpos, cf, out, notIO>>

\* IOClassFile::write of what read returned, into an empty buffer.
WriteFile ==
    /\ iopc = "returned"
    /\ ioret = "Ok"
    /\ out' = classfile_write(cf)
    /\ iopc' = "written"
    /\ UNCHANGED <<desc, file, fpos, cf, ioret, notIO>>

NextIO ==
    \/ ReadMagic
    \/ ReadHeader
    \/ ReadCp
    \/ ReadClassInfo
    \/ ReadInterface
    \/ ReadFieldCount
    \/ ReadField
    \/ ReadMethodCount
    \/ ReadMethod
    \/ ReadAttributeCount
    \/ ReadAttribute
    \/ ReadReturn
    \/ WriteFile

\* read is over.
IOReturned == iopc \in {"returned", "written"}

\* C1: for every well-formed class file b, IOClassFile::read(b) succeeds and
\* IOClassFile::write of the result emits exactly b.
C1_ReadWriteRoundTrip ==
    desc.wf =>
        /\ IOReturned => ioret = "Ok"
        /\ iopc = "written" => out = file

\* The first four bytes of the input are there and, read as a big-endian u32,
\* are not 0xCAFEBABE.
WrongMagic == Len(file) >= 4 /\ BytesHalfwords(SubSeq(file, 1, 4)) # Magic

\* C4: whenever the first four bytes of the input are not 0xCAFEBABE, read
\* fails with InvalidMagic, and the cursor is then just past those four bytes:
\* nothing beyond them has been read.
C4_InvalidMagic ==
    (WrongMagic /\ iopc # "magic") =>
        /\ iopc = "returned"
        /\ ioret = "InvalidMagic"
        /\ fpos = 4
        /\ cf = EmptyClassFile

\* C4's case: a file with a wrong magic number, longer than four bytes, has
\* been refused.
C4_Witness ==
    /\ WrongMagic
    /\ Len(file) > 4
    /\ iopc = "returned"
    /\ ioret = "InvalidMagic"

\* C12: reading a constant-pool entry whose tag byte is none of 1, 3..12, 15,
\* 16, 18, 19, 20 makes IOClassFile::read return an UnknownCpTag error to its
\* caller.
C12_UnknownTagIsAnError ==
    [][(/\ iopc = "cp"
        /\ Len(cf.cp) < cf.cp_count - 1
        /\ fpos < Len(file)
        /\ TagName(file[fpos + 1]) = "")
          => (iopc' = "returned" /\ ioret' = "UnknownCpTag")]_vars

\* C7: reading a well-formed file whose header declares cp_count, read takes
\* the entries that fill the logical slots 1..cp_count-1, a Long or Double
\* filling two: cp_count is the logical length of the pool read plus one, and
\* what follows the pool (access flags onwards) is read from where the pool
\* ends.
C7_WideEntriesTakeTwoSlots ==
    (desc.wf /\ IOReturned) =>
        /\ ioret = "Ok"
        /\ cf.cp_count = LogicalLen(cf.cp) + 1
        /\ cf.access_flags = \h0021
        /\ cf.this_class = 1
        /\ cf.super_class = 2
        /\ cf.interface_count = desc.k
        /\ fpos = Len(file)

\* C26: the tag byte IOCpTag::write emits for an entry is the tag byte
\* IOCpTag::read took the entry's kind from, and entries of two kinds are
\* never written with the same tag byte.
C26_WrittenTagIsReadTag ==
    iopc = "written" =>
        /\ \A i \in 1 .. Len(cf.cp) : TagName(cp_write(cf.cp[i])[1]) = cf.cp[i].tag
        /\ \A i, j \in 1 .. Len(cf.cp) :
               cp_write(cf.cp[i])[1] = cp_write(cf.cp[j])[1] => cf.cp[i].tag = cf.cp[j].tag

\* The header of the input is whole and declares cp_count = 0.
ZeroCount ==
    /\ Len(file) >= 10
    /\ BytesHalfwords(SubSeq(file, 1, 4)) = Magic
    /\ file[9] = 0
    /\ file[10] = 0

\* C27: on an input whose header declares cp_count = 0, IOClassFile::read
\* ends with a value of its Result, an error or a class file with an empty
\* pool: the `cp_count - 1` of the capacity and of the loop bound does not
\* underflow.
C27_ZeroCountIsAResult ==
    (ZeroCount /\ IOReturned) =>
        \/ ioret = "Ok" /\ cf.cp = << >>
        \/ ioret \in {"InvalidMagic", "NotEnoughData", "IO", "UnknownCpTag", "InvalidCpCount"}

\* The attributes as hold as many payload bytes as their attribute_length says.
AttributesConsistent(as) ==
    \A i \in 1 .. Len(as) : Len(as[i].info) = AsUsize(as[i].attribute_length)

\* The fields or methods ms hold as many attributes as their attributes_count
\* says, each consistent.
MembersConsistent(ms) ==
    \A i \in 1 .. Len(ms) :
        /\ Len(ms[i].attributes) = ms[i].attributes_count
        /\ AttributesConsistent(ms[i].attributes)

\* C28: the class file a successful IOClassFile::read returns is consistent
\* with the counts it stores: cp holds cp_count - 1 entries, interfaces,
\* fields, methods and attributes as many as their counts, at class, field
\* and method level; each attribute's info is attribute_length bytes long and
\* each Utf8 entry's bytes are length bytes long.
C28_ReadIsSelfConsistent ==
    (IOReturned /\ ioret = "Ok") =>
        /\ Len(cf.cp) = cf.cp_count - 1
        /\ \A i \in 1 .. Len(cf.cp) :
               cf.cp[i].tag = "Utf8" => Len(cf.cp[i].bytes) = cf.cp[i].length
        /\ Len(cf.interfaces) = cf.interface_count
        /\ Len(cf.fields) = cf.field_count
        /\ Len(cf.methods) = cf.method_count
        /\ Len(cf.attributes) = cf.attribute_count
        /\ MembersConsistent(cf.fields)
        /\ MembersConsistent(cf.methods)
        /\ AttributesConsistent(cf.attributes)

\* C28's case: read has returned a class file with a Utf8 entry of one byte,
\* an interface, a class attribute, and a field and a method whose attribute
\* has a payload.
C28_Witness ==
    /\ iopc = "returned"
    /\ ioret = "Ok"
    /\ \E i \in 1 .. Len(cf.cp) : cf.cp[i].tag = "Utf8" /\ cf.cp[i].length = 1
    /\ cf.interface_count = 1
    /\ cf.attribute_count = 1
    /\ cf.field_count = 1
    /\ Len(cf.fields[1].attributes[1].info) = 1
    /\ cf.method_count = 1
    /\ Len(cf.methods[1].attributes[1].info) = 1

-----------------------------------------------------------------------------
(* maya-classfile-ir: IRCpTag::from_io *)

InitIR ==
    /\ IdleCodec
    /\ IdleBytes
    /\ IdleIO
    /\ IdleLift
    /\ raw \in IRPools \cup WrongKindPools \cup CyclicPools
    /\ formed = << >>
    /\ irret = "none"
    /\ irpc = "lift"

\* let tag = Self::parse_tag(raw_tag, &raw_tags, &res)?; res.push(tag);
Push(r) ==
    IF r.kind # "Ok"
    THEN /\ irret' = r.kind
         /\ irpc' = "done"
         /\ UNCHANGED formed
    ELSE /\ formed' = Append(formed, r.value)
         /\ UNCHANGED <<irret, irpc>>

\* for raw_tag in &raw_tags { .. }: one iteration
LiftTag ==
    /\ irpc = "lift"
    /\ Len(formed) < Len(raw)
    /\ Push(parse_tag(raw[Len(formed) + 1], raw, formed, 0))
    /\ UNCHANGED <<raw, notIR>>

\* Ok(res)
LiftReturn ==
    /\ irpc = "lift"
    /\ Len(formed) = Len(raw)
    /\ irret' = "Ok"
    /\ irpc' = "done"
    /\ UNCHANGED <<raw, formed, notIR>>

NextIR ==
    \/ LiftTag
    \/ LiftReturn

\* r is a reference to the Utf8 entry at logical slot n.
Utf8RefOk(r, n) ==
    /\ r.index = n
    /\ LogicalSlot(raw, n).tag = "Utf8"
    /\ r.data = decode(LogicalSlot(raw, n).bytes).string

\* r is a reference to the NameAndType entry at logical slot n.
NameAndTypeRefOk(r, n) ==
    /\ r.index = n
    /\ LogicalSlot(raw, n).tag = "NameAndType"
    /\ Utf8RefOk(r.name, LogicalSlot(raw, n).first)
    /\ Utf8RefOk(r.ty, LogicalSlot(raw, n).second)

\* The references of the lifted entry e are those of the file's entry io.
RefsOk(e, io) ==
    /\ e.tag = io.tag
    /\ io.tag \in OneIndexTags => Utf8RefOk(e.ref, io.index)
    /\ io.tag = "NameAndType" =>
           Utf8RefOk(e.name, io.first) /\ Utf8RefOk(e.descriptor, io.second)
    /\ io.tag \in {"FieldRef", "MethodRef", "InterfaceMethodRef", "InvokeDynamic"} =>
           NameAndTypeRefOk(e.name_and_ty, io.second)
    /\ io.tag = "MethodHandle" =>
           e.ref_index = io.second /\ e.ref_tag.tag = LogicalSlot(raw, io.second).tag

\* C8: the pool is lifted, and every reference of every lifted entry carries
\* the index n written in the file and a snapshot of the entry at logical slot
\* n, logical slots counting the unusable slot after each Long and Double.
C8_ReferencesUseLogicalSlots ==
    raw \in IRPools =>
        /\ irpc = "done" => irret = "Ok"
        /\ \A p \in 1 .. Len(formed) : RefsOk(formed[p], raw[p])

\* The indices of the entry e that the lift resolves or that name a class,
\* each with the kinds its referent may have.
RefsOf(e) ==
    IF e.tag \in OneIndexTags THEN { << e.index, {"Utf8"} >> }
    ELSE IF e.tag = "NameAndType" THEN { << e.first, {"Utf8"} >>, << e.second, {"Utf8"} >> }
    ELSE IF e.tag \in {"FieldRef", "MethodRef", "InterfaceMethodRef"}
         THEN { << e.first, {"Class"} >>, << e.second, {"NameAndType"} >> }
    ELSE IF e.tag = "InvokeDynamic" THEN { << e.second, {"NameAndType"} >> }
    ELSE { }

\* Some index of the pool resolves to an entry of the wrong kind.
WrongReferent(pool) ==
    \E p \in 1 .. Len(pool) : \E r \in RefsOf(pool[p]) :
        r[1] \in 1 .. Len(pool) /\ pool[r[1]].tag \notin r[2]

\* C13: the lift of a pool in which a cross-reference resolves to an entry of
\* the wrong kind ends with a WrongReferent error returned to the caller.
C13_WrongReferentIsAnError ==
    (irpc = "done" /\ LogicalLen(raw) = Len(raw) /\ WrongReferent(raw))
        => irret = "WrongReferent"

\* Every index the lift of the pool resolves is the position of an entry of
\* the kind it takes there (positions in raw_tags, from 1), and every
\* MethodHandle has a reference kind.
Resolvable(pool) ==
    /\ \A p \in 1 .. Len(pool) : \A r \in RefsOf(pool[p]) :
           r[1] \in 1 .. Len(pool) /\ pool[r[1]].tag \in r[2]
    /\ \A p \in 1 .. Len(pool) : pool[p].tag = "MethodHandle" =>
           /\ pool[p].first \in 1 .. 9
           /\ pool[p].second \in 1 .. Len(pool)
           /\ pool[pool[p].second].tag \in {"FieldRef", "MethodRef", "InterfaceMethodRef"}

\* The reference to the Utf8 entry at position j of raw_tags.
Utf8RefTo(j) == [data |-> decode(raw[j].bytes).string, index |-> j]

\* The reference to the NameAndType entry at position j of raw_tags.
NameAndTypeRefTo(j) ==
    [index |-> j, name |-> Utf8RefTo(raw[j].first), ty |-> Utf8RefTo(raw[j].second)]

\* The lifted entry e of the file's entry io holds the references to the
\* entries io names, wherever they stand.
LiftedFrom(e, io) ==
    /\ io.tag \in OneIndexTags => e = [tag |-> io.tag, ref |-> Utf8RefTo(io.index)]
    /\ io.tag = "NameAndType" =>
           e = [tag |-> io.tag, name |-> Utf8RefTo(io.first),
                descriptor |-> Utf8RefTo(io.second)]
    /\ io.tag \in {"FieldRef", "MethodRef", "InterfaceMethodRef", "InvokeDynamic"} =>
           e = [tag |-> io.tag, first |-> io.first,
                name_and_ty |-> NameAndTypeRefTo(io.second)]
    /\ io.tag = "Utf8" => e = [tag |-> "Utf8", data |-> decode(io.bytes).string]

\* C20: the lift of an entry does not depend on where its referent stands.
\* An entry at position i naming position j, before or after i, is lifted to
\* the reference with index j and the decoded referent; the lift of a pool
\* with forward references succeeds, and the lifted pool holds each lifted
\* referent at its own position j.
C20_ForwardReference ==
    Resolvable(raw) =>
        /\ irpc = "done" => (irret = "Ok" /\ Len(formed) = Len(raw))
        /\ \A p \in 1 .. Len(formed) : LiftedFrom(formed[p], raw[p])

\* C20's case: a pool in which a Class entry names a Utf8 entry after it has
\* been lifted.
C20_Witness ==
    /\ irpc = "done"
    /\ irret = "Ok"
    /\ \E i \in 1 .. Len(raw) :
           /\ raw[i].tag = "Class"
           /\ raw[i].index > i
           /\ formed[i].ref.index = raw[i].index
           /\ formed[raw[i].index].tag = "Utf8"
           /\ formed[i].ref.data = formed[raw[i].index].data

\* The positions parse_tag goes to from the entry e: the indices it hands to
\* parse_tag_idx!.
Follows(e) ==
    IF e.tag \in OneIndexTags THEN { e.index }
    ELSE IF e.tag = "NameAndType" THEN { e.first, e.second }
    ELSE IF e.tag \in {"MethodHandle", "FieldRef", "MethodRef", "InterfaceMethodRef",
                       "InvokeDynamic"} THEN { e.second }
    ELSE { }

\* The positions reached from the set S of positions in at most k steps of
\* Follows.
RECURSIVE Reach(_, _, _)
Reach(pool, S, k) ==
    IF k = 0 THEN S
    ELSE Reach(pool,
               S \cup UNION { Follows(pool[p]) \cap (1 .. Len(pool)) : p \in S }, k - 1)

\* Some entry of the pool is reached from itself.
HasCycle(pool) ==
    \E p \in 1 .. Len(pool) :
        p \in Reach(pool, Follows(pool[p]) \cap (1 .. Len(pool)), Len(pool))

\* C21: the lift of a pool whose references form a cycle ends, and not by
\* recursing until the stack is exhausted.
C21_CycleEndsInAnError ==
    (irpc = "done" /\ HasCycle(raw)) => irret # "stack overflow"

(* maya-classfile-ir: IRAttributeInfo::from_io, statement by statement, the  *)
(* StackMapTable arm frame by frame                                          *)

InitAttr ==
    /\ IdleCodec
    /\ IdleBytes
    /\ IdleIO
    /\ IdleIR
    /\ IdleClass
    /\ IdleParse
    /\ overflow_checks \in BOOLEAN
    /\ \E n \in AttrNames :
           /\ attr_cp = cp_from_io(AttrPool(n), << >>).value
           /\ \/ \E info \in PayloadsFor(n) : attr_raw = IOAttribute(1, info)
              \/ \E i \in { 0, 2, 3, 5, 6 }, info \in { << >>, << 0 >> } :
                     attr_raw = IOAttribute(i, info)
    /\ attr_name = None
    /\ attr_pos = 0
    /\ attr_n = 0
    /\ attr_entries = << >>
    /\ attr_out = None
    /\ attr_ret = "none"
    /\ attr_pc = "name"

\* A panic, or an Err that `?` returns.
AttrFail(r) ==
    /\ attr_ret' = r.kind
    /\ attr_pc' = "done"
    /\ UNCHANGED <<attr_name, attr_pos, attr_n, attr_entries, attr_out>>

\* The IRAttributeInfo of `Ok(Self { length, attr, name })`
AttributeInfo(a) ==
    [name |-> attr_name, length |-> attr_raw.attribute_length, attr |-> a]

AttrNamed(r) ==
    IF r.kind # "Ok" THEN AttrFail(r)
    ELSE /\ attr_name' = r.value
         /\ attr_pc' = "new"
         /\ UNCHANGED <<attr_pos, attr_n, attr_entries, attr_out, attr_ret>>

\* let name = CPUtf8Ref::new(raw.attribute_name_index, cp.get(..).expect("invalid index"));
AttrName ==
    /\ attr_pc = "name"
    /\ AttrNamed(Try(cp_get(attr_cp, attr_raw.attribute_name_index), LAMBDA t:
                 CPUtf8Ref_new(attr_raw.attribute_name_index, t.value)))
    /\ UNCHANGED <<attr_cp, attr_raw, notAttr>>

AttrMade(r) ==
    IF r.kind # "Ok" THEN AttrFail(r)
    ELSE /\ attr_out' = AttributeInfo(r.value)
         /\ attr_pos' = r.pos
         /\ attr_pc' = "return"
         /\ UNCHANGED <<attr_name, attr_n, attr_entries, attr_ret>>

\* attr: IRAttribute::new(name.clone(), cp, &mut buffer)?, every arm but StackMapTable
AttrNew ==
    /\ attr_pc = "new"
    /\ attr_name.data # Str_StackMapTable
    /\ AttrMade(IRAttribute_new(attr_name, attr_cp, attr_raw.info, 0, overflow_checks))
    /\ UNCHANGED <<attr_cp, attr_raw, notAttr>>

AttrCounted(r) ==
    IF r.kind # "Ok" THEN AttrFail(r)
    ELSE /\ attr_n' = r.value
         /\ attr_pos' = r.pos
         /\ attr_pc' = "frame"
         /\ UNCHANGED <<attr_name, attr_entries, attr_out, attr_ret>>

\* "StackMapTable" => { let n_entries = data.read_u16()? as usize;
AttrEntries ==
    /\ attr_pc = "new"
    /\ attr_name.data = Str_StackMapTable
    /\ AttrCounted(read_int(attr_raw.info, attr_pos, "u16"))
    /\ UNCHANGED <<attr_cp, attr_raw, notAttr>>

AttrPushed(r) ==
    IF r.kind # "Ok" THEN AttrFail(r)
    ELSE /\ attr_entries' = Append(attr_entries, r.value)
         /\ attr_pos' = r.pos
         /\ UNCHANGED <<attr_name, attr_n, attr_out, attr_ret, attr_pc>>

\* entries.push(StackMapFrame::new(data)?)
AttrFrame ==
    /\ attr_pc = "frame"
    /\ Len(attr_entries) < attr_n
    /\ AttrPushed(StackMapFrame_new(attr_raw.info, attr_pos, overflow_checks))
    /\ UNCHANGED <<attr_cp, attr_raw, notAttr>>

\* Self::StackMapTable(StackMapTableAttribute { entries }) }
AttrFramesEnd ==
    /\ attr_pc = "frame"
    /\ Len(attr_entries) = attr_n
    /\ attr_out' = AttributeInfo([attr |-> "StackMapTable", entries |-> attr_entries])
    /\ attr_pc' = "return"
    /\ UNCHANGED <<attr_cp, attr_raw, attr_name, attr_pos, attr_n, attr_entries, attr_ret,
                   notAttr>>

\* Ok(Self { .. })
AttrReturn ==
    /\ attr_pc = "return"
    /\ attr_ret' = "Ok"
    /\ attr_pc' = "done"
    /\ UNCHANGED <<attr_cp, attr_raw, attr_name, attr_pos, attr_n, attr_entries, attr_out,
                   notAttr>>

NextAttr ==
    \/ AttrName
    \/ AttrNew
    \/ AttrEntries
    \/ AttrFrame
    \/ AttrFramesEnd
    \/ AttrReturn

\* C16: IRAttributeInfo::from_io succeeds only if the attribute's grammar
\* consumed the whole payload, and a payload with bytes left over after the
\* grammar is rejected with TrailingBytes.
C16_WholePayloadConsumed ==
    attr_pc = "done" =>
        /\ attr_ret = "Ok" => attr_pos = Len(attr_raw.info)
        /\ (attr_out # None /\ attr_pos < Len(attr_raw.info)) => attr_ret = "TrailingBytes"

\* C17: an attribute whose name IRAttribute::new has no arm for makes the
\* lift return an UnknownAttribute error.
C17_UnknownAttributeIsAnError ==
    (attr_pc = "done" /\ attr_name # None /\ attr_name.data \notin KnownAttributes)
        => attr_ret = "UnknownAttribute"

\* StackMapFrame::new is about to read a frame whose tag is there to read.
AtFrame ==
    /\ attr_pc = "frame"
    /\ Len(attr_entries) < attr_n
    /\ attr_pos < Len(attr_raw.info)

\* C18: for a frame tag in 128..=246 StackMapFrame::new returns an
\* UnknownStackMapFrameTag error and makes no frame.
C18_ReservedFrameTagIsAnError ==
    [][(AtFrame /\ attr_raw.info[attr_pos + 1] \in 128 .. 246)
          => (attr_ret' = "UnknownStackMapFrameTag" /\ attr_entries' = attr_entries)]_vars

\* The frame C19 names for the tag t when the verification type after it
\* reads as v.
SameLocals1StackItemFrame(t, v) ==
    [frame |-> "SameLocals1StackItemFrame", frame_type |-> t, offset_delta |-> t - 64,
     stack |-> v]

\* C19: a tag t in 0..=63 makes SameFrame with offset_delta t; a tag t in
\* 64..=127 followed by a verification type makes SameLocals1StackItemFrame
\* with offset_delta t - 64 and that type as its stack.
C19_OffsetDeltaFromTag ==
    [][AtFrame =>
        /\ attr_raw.info[attr_pos + 1] \in 0 .. 63 =>
               attr_entries' = Append(attr_entries,
                   [frame |-> "SameFrame", frame_type |-> attr_raw.info[attr_pos + 1],
                    offset_delta |-> attr_raw.info[attr_pos + 1]])
        /\ (/\ attr_raw.info[attr_pos + 1] \in 64 .. 127
            /\ VerificationTypeInfo_read(attr_raw.info, attr_pos + 1).kind = "Ok") =>
               attr_entries' = Append(attr_entries,
                   SameLocals1StackItemFrame(attr_raw.info[attr_pos + 1],
                       VerificationTypeInfo_read(attr_raw.info, attr_pos + 1).value))]_vars

\* The frame kind of C23's table for the tag t.
FrameKind(t) ==
    IF t \in 0 .. 63 THEN "SameFrame"
    ELSE IF t \in 64 .. 127 THEN "SameLocals1StackItemFrame"
    ELSE IF t = 247 THEN "SameLocals1StackItemFrameExtended"
    ELSE IF t \in 248 .. 250 THEN "ChopFrame"
    ELSE IF t = 251 THEN "SameFrameExtended"
    ELSE IF t \in 252 .. 254 THEN "AppendFrame"
    ELSE IF t = 255 THEN "FullFrame"
    ELSE "none"

\* The bytes a verification type takes in the payload: its tag, and a u16
\* after the tags 7 and 8.
VtiBytes(v) ==
    IF v.tag \in {"ObjectVariableInfo", "UninitializedVariableInfo"} THEN 3 ELSE 1

RECURSIVE SumVtiBytes(_)
SumVtiBytes(vs) == IF vs = << >> THEN 0 ELSE VtiBytes(Head(vs)) + SumVtiBytes(Tail(vs))

\* The u16 at offset k (from 0) of the payload.
U16At(k) == attr_raw.info[k + 1] * 256 + attr_raw.info[k + 2]

\* The verification types of the frame f.
VtiCount(f) ==
    IF f.frame \in {"SameLocals1StackItemFrame", "SameLocals1StackItemFrameExtended"} THEN 1
    ELSE IF f.frame = "AppendFrame" THEN Len(f.locals)
    ELSE IF f.frame = "FullFrame" THEN Len(f.locals) + Len(f.stack)
    ELSE 0

\* The number of verification types C23's formula gives the frame f read at
\* offset k of the payload: for a FullFrame the two counts stored in the
\* payload, n_locals after offset_delta and n_stack after the locals.
VtiFormula(f, k) ==
    IF f.frame_type \in 64 .. 127 \/ f.frame_type = 247 THEN 1
    ELSE IF f.frame_type \in 252 .. 254 THEN f.frame_type - 251
    ELSE IF f.frame_type = 255 THEN U16At(k + 3) + U16At(k + 5 + SumVtiBytes(f.locals))
    ELSE 0

\* C23: a frame StackMapFrame::new makes from the tag t is of the kind the
\* table gives t, and holds as many verification types as the formula says:
\* none for SameFrame, ChopFrame and SameFrameExtended, one for 64..=127 and
\* 247, t - 251 for AppendFrame, n_locals + n_stack for FullFrame.
C23_FrameKindAndArity ==
    [][(AtFrame /\ Len(attr_entries') = Len(attr_entries) + 1) =>
          /\ attr_entries'[Len(attr_entries')].frame_type = attr_raw.info[attr_pos + 1]
          /\ attr_entries'[Len(attr_entries')].frame = FrameKind(attr_raw.info[attr_pos + 1])
          /\ VtiCount(attr_entries'[Len(attr_entries')])
                 = VtiFormula(attr_entries'[Len(attr_entries')], attr_pos)]_vars

\* C23's case: frames of the kinds with verification types have been made, a
\* FullFrame with one local and one stack item among them.
C23_Witness ==
    /\ attr_pc = "done"
    /\ attr_ret = "Ok"
    /\ \E k \in 1 .. Len(attr_entries) :
           /\ attr_entries[k].frame = "FullFrame"
           /\ Len(attr_entries[k].locals) = 1
           /\ Len(attr_entries[k].stack) = 1

\* A payload of the class-file format for an attribute of the name n:
\* EnclosingMethod is a class index and a method index (0 for none),
\* AnnotationDefault an element value, BootstrapMethods a count and its
\* methods (here none).
WellFormedPayload(n) ==
    IF n = Str_EnclosingMethod THEN << 0, 3, 0, 0 >>
    ELSE IF n = Str_AnnotationDefault THEN << 73, 0, 4 >>
    ELSE << 0, 0 >>

\* C24: an attribute named EnclosingMethod, AnnotationDefault or
\* BootstrapMethods with a well-formed payload is lifted to the variant of
\* that name, as Synthetic and Deprecated are.
C24_NamedAttributeIsDecoded ==
    (/\ attr_pc = "done"
     /\ attr_name # None
     /\ attr_name.data \in NamedWithoutAnArm
     /\ attr_raw.info = WellFormedPayload(attr_name.data))
        => (attr_ret = "Ok" /\ attr_out # None /\ attr_out.name = attr_name)

\* C25: each index n of an Exceptions attribute is resolved by the 1-based
\* rule: the reference made for it has the index n and carries the entry at
\* slot n of the pool, not the one at n + 1.
C25_ExceptionIndexIsOneBased ==
    (attr_pc = "done" /\ attr_ret = "Ok" /\ attr_out.attr.attr = "Exceptions") =>
        \A k \in 1 .. Len(attr_out.attr.exception_index_table) :
            /\ attr_out.attr.exception_index_table[k].index = U16At(2 * k)
            /\ U16At(2 * k) \in 1 .. Len(attr_cp)
            /\ attr_out.attr.exception_index_table[k].data = attr_cp[U16At(2 * k)].data

(* maya-classfile-ir: IRClassFile::from_io, statement by statement *)

InitClass ==
    /\ IdleCodec
    /\ IdleBytes
    /\ IdleIO
    /\ IdleIR
    /\ IdleAttr
    /\ IdleParse
    /\ overflow_checks \in BOOLEAN
    /\ cls_raw \in Classes
    /\ cls_ir = NoIRClass
    /\ cls_ret = "none"
    /\ cls_pc = "cp"

\* `.unwrap()`: an Err becomes a panic.
unwrap(r) == IF r.kind \in { "Ok", "panic", "stack overflow" } THEN r ELSE IRFail("panic")

\* One statement of from_io: a panic or an Err of `?` ends it, a value goes
\* into the class and from_io goes on at pc.
ClassStep(r, Upd(_), pc) ==
    IF r.kind # "Ok"
    THEN /\ cls_ret' = r.kind
         /\ cls_pc' = "done"
         /\ UNCHANGED cls_ir
    ELSE /\ cls_ir' = Upd(r.value)
         /\ cls_pc' = pc
         /\ UNCHANGED cls_ret

\* let cp = IRCpTag::from_io(raw.cp).unwrap();
ClassPool ==
    /\ cls_pc = "cp"
    /\ ClassStep(unwrap(cp_from_io(cls_raw.cp, << >>)),
                 LAMBDA v: [cls_ir EXCEPT !.cp = v], "this_class")
    /\ UNCHANGED <<cls_raw, notClass>>

\* CPClassRef::new(index, cp.get(index.saturating_sub(1) as usize).unwrap())
ClassRefSaturating(cp, index) ==
    Try(cp_get_saturating(cp, index), LAMBDA t: CPClassRef_new(index, t.value))

\* let this_class = CPClassRef::new(raw.this_class, ..);
ClassThis ==
    /\ cls_pc = "this_class"
    /\ ClassStep(ClassRefSaturating(cls_ir.cp, cls_raw.this_class),
                 LAMBDA v: [cls_ir EXCEPT !.this_class = v], "super_class")
    /\ UNCHANGED <<cls_raw, notClass>>

\* let super_class = CPClassRef::new(raw.super_class, ..);
ClassSuper ==
    /\ cls_pc = "super_class"
    /\ ClassStep(ClassRefSaturating(cls_ir.cp, cls_raw.super_class),
                 LAMBDA v: [cls_ir EXCEPT !.super_class = v], "interfaces")
    /\ UNCHANGED <<cls_raw, notClass>>

\* .map(|idx| CPClassRef::new(idx, cp.get(idx as usize - 1).unwrap())).collect()
RECURSIVE InterfacesFromCp(_, _)
InterfacesFromCp(cp, interfaces) ==
    IF interfaces = << >> THEN IROk(<< >>)
    ELSE Try(cp_get(cp, Head(interfaces)), LAMBDA t:
         Try(CPClassRef_new(Head(interfaces), t.value), LAMBDA r:
         Try(InterfacesFromCp(cp, Tail(interfaces)), LAMBDA rest:
         IROk(<< r.value >> \o rest.value))))

\* let interfaces = raw.interfaces.iter().copied().map(..).collect();
ClassInterfaces ==
    /\ cls_pc = "interfaces"
    /\ ClassStep(InterfacesFromCp(cls_ir.cp, cls_raw.interfaces),
                 LAMBDA v: [cls_ir EXCEPT !.interfaces = v], "fields")
    /\ UNCHANGED <<cls_raw, notClass>>

\* .map(|f| IRFieldInfo::from_io(&cp, f)).collect::<Result<Vec<_>, _>>()
RECURSIVE MembersFromIo(_, _, _)
MembersFromIo(cp, members, checked) ==
    IF members = << >> THEN IROk(<< >>)
    ELSE Try(IRFieldInfo_from_io(cp, Head(members), checked), LAMBDA r:
         Try(MembersFromIo(cp, Tail(members), checked), LAMBDA rest:
         IROk(<< r.value >> \o rest.value)))

\* let fields = raw.fields.into_iter().map(..).collect::<Result<Vec<_>, _>>()?;
ClassFields ==
    /\ cls_pc = "fields"
    /\ ClassStep(MembersFromIo(cls_ir.cp, cls_raw.fields, overflow_checks),
                 LAMBDA v: [cls_ir EXCEPT !.fields = v], "methods")
    /\ UNCHANGED <<cls_raw, notClass>>

\* let methods = raw.methods.into_iter().map(..).collect::<Result<Vec<_>, _>>()?;
ClassMethods ==
    /\ cls_pc = "methods"
    /\ ClassStep(MembersFromIo(cls_ir.cp, cls_raw.methods, overflow_checks),
                 LAMBDA v: [cls_ir EXCEPT !.methods = v], "attributes")
    /\ UNCHANGED <<cls_raw, notClass>>

\* let attributes = raw.attributes.into_iter().map(..).collect::<Result<Vec<_>, _>>()?;
ClassAttributes ==
    /\ cls_pc = "attributes"
    /\ ClassStep(AttributesFromIo(cls_ir.cp, cls_raw.attributes, overflow_checks),
                 LAMBDA v: [cls_ir EXCEPT !.attributes = v], "return")
    /\ UNCHANGED <<cls_raw, notClass>>

\* Ok(Self { .. })
ClassReturn ==
    /\ cls_pc = "return"
    /\ cls_ret' = "Ok"
    /\ cls_pc' = "done"
    /\ UNCHANGED <<cls_raw, cls_ir, notClass>>

NextClass ==
    \/ ClassPool
    \/ ClassThis
    \/ ClassSuper
    \/ ClassInterfaces
    \/ ClassFields
    \/ ClassMethods
    \/ ClassAttributes
    \/ ClassReturn

\* The pool indices a field or a method uses.
MemberIndexes(m) ==
    { m.name_index, m.descriptor_index }
        \cup { m.attributes[k].attribute_name_index : k \in 1 .. Len(m.attributes) }

\* The pool indices a class file uses: inside the pool, as this_class,
\* super_class, an interface, a field's or method's name or descriptor, or an
\* attribute's name.
UsedIndexes(c) ==
    { c.this_class, c.super_class }
        \cup { c.interfaces[k] : k \in 1 .. Len(c.interfaces) }
        \cup UNION { MemberIndexes(c.fields[k]) : k \in 1 .. Len(c.fields) }
        \cup UNION { MemberIndexes(c.methods[k]) : k \in 1 .. Len(c.methods) }
        \cup { c.attributes[k].attribute_name_index : k \in 1 .. Len(c.attributes) }
        \cup UNION { { r[1] : r \in RefsOf(c.cp[p]) } : p \in 1 .. Len(c.cp) }
        \cup { c.cp[p].second : p \in { q \in 1 .. Len(c.cp) : c.cp[q].tag = "MethodHandle" } }

\* C14: a class file that uses a pool index that is 0 or not below cp_count
\* makes IRClassFile::from_io return IndexOutOfRange (so index 0 is never
\* taken for the entry in slot 1).  The pools have no Long or Double:
\* cp_count is the number of entries plus one.
C14_IndexOutOfRangeIsAnError ==
    (/\ cls_pc = "done"
     /\ LogicalLen(cls_raw.cp) = Len(cls_raw.cp)
     /\ \E i \in UsedIndexes(cls_raw) : i = 0 \/ i > Len(cls_raw.cp))
        => cls_ret = "IndexOutOfRange"

\* C15: when the bytes of a Utf8 entry are not modified UTF-8 (and the pool
\* is otherwise well-shaped), IRClassFile::from_io returns the decoding
\* failure as an Err.
C15_DecodingFailureIsReturned ==
    (/\ cls_pc = "done"
     /\ Resolvable(cls_raw.cp)
     /\ \E p \in 1 .. Len(cls_raw.cp) :
            cls_raw.cp[p].tag = "Utf8" /\ decode(cls_raw.cp[p].bytes).kind = "Err")
        => cls_ret = "Mutf8"

-----------------------------------------------------------------------------
(* compiler: Parser, statement by statement *)

\* A token is its kind: the Ident, Comment and String payloads and the
\* variants of Keyword, Builtin and Ascii are all the parser looks at.
Keywords == { "Static", "Fn" }
AsciiTokens ==
    { "LParen", "RParen", "LBrace", "RBrace", "LCaret", "RCaret", "Colon", "SemiColon" }
TokenKinds == { "Ident", "Comment", "String", "Println" } \cup Keywords \cup AsciiTokens

\* The tokens of `static fn main(a: T) { println("s"); }`
MethodTokens ==
    << "Static", "Fn", "Ident", "LParen", "Ident", "Colon", "Ident", "RParen", "LBrace",
       "Println", "LParen", "String", "RParen", "SemiColon", "RBrace" >>

MaxTokens == 3
MaxSpins == 2

\* Token sequences: the method, cut at every length, with each token replaced
\* by each other kind, with a second modifier, twice, after a comment, and
\* the short sequences of keywords, identifiers and comments.
TokenSeqs ==
    { SubSeq(MethodTokens, 1, n) : n \in 0 .. Len(MethodTokens) }
        \cup { [MethodTokens EXCEPT ![i] = k] : i \in 1 .. Len(MethodTokens), k \in TokenKinds }
        \cup { << "Static" >> \o MethodTokens, MethodTokens \o MethodTokens,
               << "Comment" >> \o MethodTokens }
        \cup SeqsUpTo({ "Static", "Fn", "Ident", "Comment" }, MaxTokens)

InitParse ==
    /\ IdleCodec
    /\ IdleBytes
    /\ IdleIO
    /\ IdleIR
    /\ IdleAttr
    /\ IdleClass
    /\ overflow_checks \in BOOLEAN
    /\ tokens \in TokenSeqs
    /\ token_idx = 0
    /\ methods = << >>
    /\ modifiers = << >>
    /\ instructions = << >>
    /\ spins = 0
    /\ parse_ret = "none"
    /\ parse_pc = "parse"

\* Parser::peek ("None" for None)
peek == IF token_idx < Len(tokens) THEN tokens[token_idx + 1] ELSE "None"

\* panic!(..) and todo!(): the thread unwinds out of parse.
Panics ==
    /\ parse_ret' = "panic"
    /\ parse_pc' = "done"

\* Parser::expect_token(msg, ty); on success the parser goes on at pc.
expect_token(ty, pc) ==
    IF token_idx >= Len(tokens) THEN UNCHANGED token_idx /\ Panics
    ELSE /\ token_idx' = token_idx + 1
         /\ IF tokens[token_idx + 1] # ty THEN Panics
            ELSE parse_pc' = pc /\ UNCHANGED parse_ret

\* expect_token_value!(self, msg, kind); on success the parser goes on at pc.
expect_token_value(kind, pc) ==
    IF peek = kind
    THEN token_idx' = token_idx + 1 /\ parse_pc' = pc /\ UNCHANGED parse_ret
    ELSE UNCHANGED token_idx /\ Panics

\* parse: Token::Ident(_) | Comment(_) | String(_) | Builtin(_) | Ascii(_) => { self.pop(); }
ParsePop ==
    /\ parse_pc = "parse"
    /\ peek \in TokenKinds \ Keywords
    /\ token_idx' = token_idx + 1
    /\ UNCHANGED <<tokens, methods, modifiers, instructions, spins, parse_ret, parse_pc,
                   notParse>>

\* parse: KeywordToken::Static => methods.push(self.parse_method()): the call
\* of parse_method, at `let modifiers = self.collect_modifiers()`, `let mut v = vec![]`
ParseStatic ==
    /\ parse_pc = "parse"
    /\ peek = "Static"
    /\ modifiers' = << >>
    /\ instructions' = << >>
    /\ spins' = 0
    /\ parse_pc' = "collect_modifiers"
    /\ UNCHANGED <<tokens, token_idx, methods, parse_ret, notParse>>

\* parse: KeywordToken::Fn => todo!()
ParseFn ==
    /\ parse_pc = "parse"
    /\ peek = "Fn"
    /\ Panics
    /\ UNCHANGED <<tokens, token_idx, methods, modifiers, instructions, spins, notParse>>

\* parse: peek() is None: the loop ends and ParsedClass { .. } is returned.
ParseReturn ==
    /\ parse_pc = "parse"
    /\ peek = "None"
    /\ parse_ret' = "Ok"
    /\ parse_pc' = "done"
    /\ UNCHANGED <<tokens, token_idx, methods, modifiers, instructions, spins, notParse>>

\* collect_modifiers: KeywordToken::Static => { self.pop(); v.push(Modifiers::Static); }
ModifiersStatic ==
    /\ parse_pc = "collect_modifiers"
    /\ peek = "Static"
    /\ token_idx' = token_idx + 1
    /\ modifiers' = Append(modifiers, "Static")
    /\ UNCHANGED <<tokens, methods, instructions, spins, parse_ret, parse_pc, notParse>>

\* collect_modifiers: KeywordToken::Fn => break, or peek() is None: v is returned.
ModifiersEnd ==
    /\ parse_pc = "collect_modifiers"
    /\ peek \in { "Fn", "None" }
    /\ parse_pc' = "fn"
    /\ UNCHANGED <<tokens, token_idx, methods, modifiers, instructions, spins, parse_ret,
                   notParse>>

\* collect_modifiers: the token is no Token::Keyword, so the body of
\* `if let Token::Keyword(t) = t` is passed over and the loop comes round
\* again.  The pass changes nothing of the parser; spins counts such passes,
\* up to MaxSpins.
ModifiersSpin ==
    /\ parse_pc = "collect_modifiers"
    /\ peek \in TokenKinds \ Keywords
    /\ spins < MaxSpins
    /\ spins' = spins + 1
    /\ UNCHANGED <<tokens, token_idx, methods, modifiers, instructions, parse_ret, parse_pc,
                   notParse>>

\* What an expect_token or expect_token_value! leaves alone.
notExpected == <<tokens, methods, modifiers, instructions, spins, notParse>>

\* parse_method: self.expect_token("expected 'fn'", Token::Keyword(KeywordToken::Fn))
ExpectFn ==
    /\ parse_pc = "fn"
    /\ expect_token("Fn", "name")
    /\ UNCHANGED notExpected

\* parse_method: let name = expect_token_value!(self, "expected ident", Ident).clone()
ExpectName ==
    /\ parse_pc = "name"
    /\ expect_token_value("Ident", "lparen")
    /\ UNCHANGED notExpected

\* parse_method: self.expect_token("expected '('", Token::Ascii(AsciiToken::LParen))
ExpectLParen ==
    /\ parse_pc = "lparen"
    /\ expect_token("LParen", "parse_args")
    /\ UNCHANGED notExpected

\* parse_args: while let Some(Token::Ident(_)) = self.peek() { self.pop();
ArgsIdent ==
    /\ parse_pc = "parse_args"
    /\ peek = "Ident"
    /\ token_idx' = token_idx + 1
    /\ parse_pc' = "colon"
    /\ UNCHANGED <<tokens, methods, modifiers, instructions, spins, parse_ret, notParse>>

\* parse_args: the token is no Ident, or there is none: the loop ends.
ArgsEnd ==
    /\ parse_pc = "parse_args"
    /\ peek # "Ident"
    /\ parse_pc' = "lbrace"
    /\ UNCHANGED <<tokens, token_idx, methods, modifiers, instructions, spins, parse_ret,
                   notParse>>

\* parse_args: self.expect_token("expected ':'", Token::Ascii(AsciiToken::Colon))
ExpectColon ==
    /\ parse_pc = "colon"
    /\ expect_token("Colon", "arg_type")
    /\ UNCHANGED notExpected

\* parse_args: expect_token_value!(self, "expected ident", Ident)
ExpectArgType ==
    /\ parse_pc = "arg_type"
    /\ expect_token_value("Ident", "rparen")
    /\ UNCHANGED notExpected

\* parse_args: self.expect_token("expected ')'", Token::Ascii(AsciiToken::RParen)),
\* the end of the loop's body
ExpectRParen ==
    /\ parse_pc = "rparen"
    /\ expect_token("RParen", "parse_args")
    /\ UNCHANGED notExpected

\* parse_method: self.expect_token("expected '{'", Token::Ascii(AsciiToken::LBrace))
ExpectLBrace ==
    /\ parse_pc = "lbrace"
    /\ expect_token("LBrace", "body")
    /\ UNCHANGED notExpected

\* parse_method: let Some(next) = self.pop() else { panic!("e") }; match next:
\* Builtin(Println) goes on, every other token is todo!()
Body ==
    /\ parse_pc = "body"
    /\ IF peek = "None" THEN UNCHANGED token_idx /\ Panics
       ELSE /\ token_idx' = token_idx + 1
            /\ IF peek = "Println" THEN parse_pc' = "println" /\ UNCHANGED parse_ret
               ELSE Panics
    /\ UNCHANGED <<tokens, methods, modifiers, instructions, spins, notParse>>

\* Println: self.expect_token("expected '('", ..)
PrintlnLParen ==
    /\ parse_pc = "println"
    /\ expect_token("LParen", "println_string")
    /\ UNCHANGED notExpected

\* Println: instructions.push(ParsedInstruction::Println(expect_token_value!(self,
\* "expected string", String)))
PrintlnString ==
    /\ parse_pc = "println_string"
    /\ expect_token_value("String", "println_rparen")
    /\ instructions' = IF peek = "String" THEN Append(instructions, "Println")
                       ELSE instructions
    /\ UNCHANGED <<tokens, methods, modifiers, spins, notParse>>

\* Println: self.expect_token("expected ')'", ..)
PrintlnRParen ==
    /\ parse_pc = "println_rparen"
    /\ expect_token("RParen", "semicolon")
    /\ UNCHANGED notExpected

\* Println: self.expect_token("expected ';'", ..)
PrintlnSemiColon ==
    /\ parse_pc = "semicolon"
    /\ expect_token("SemiColon", "rbrace")
    /\ UNCHANGED notExpected

\* parse_method: self.expect_token("expected '}'", ..); ParsedMethod { .. } is
\* returned and parse pushes it.
ExpectRBrace ==
    /\ parse_pc = "rbrace"
    /\ expect_token("RBrace", "parse")
    /\ methods' = IF peek = "RBrace"
                  THEN Append(methods, [modifiers |-> modifiers,
                                        instructions |-> instructions])
                  ELSE methods
    /\ UNCHANGED <<tokens, modifiers, instructions, spins, notParse>>

NextParse ==
    \/ ParsePop
    \/ ParseStatic
    \/ ParseFn
    \/ ParseReturn
    \/ ModifiersStatic
    \/ ModifiersEnd
    \/ ModifiersSpin
    \/ ExpectFn
    \/ ExpectName
    \/ ExpectLParen
    \/ ArgsIdent
    \/ ArgsEnd
    \/ ExpectColon
    \/ ExpectArgType
    \/ ExpectRParen
    \/ ExpectLBrace
    \/ Body
    \/ PrintlnLParen
    \/ PrintlnString
    \/ PrintlnRParen
    \/ PrintlnSemiColon
    \/ ExpectRBrace

\* C30: Parser::parse terminates on every token sequence: each pass of a loop
\* of parse, collect_modifiers and parse_args moves token_idx forward or
\* leaves the loop, also when `static` is followed by a token that is no
\* keyword.  In the model: every step moves token_idx forward or takes the
\* parser to another statement.
C30_EveryIterationAdvances ==
    [][token_idx' > token_idx \/ parse_pc' # parse_pc]_vars

-----------------------------------------------------------------------------
(* Specifications: one per component, the others idle *)

SpecCodec == InitCodec /\ [][NextCodec]_vars

SpecBytes == InitBytes /\ [][NextBytes]_vars

SpecIO == InitIO /\ [][NextIO]_vars

SpecIR == InitIR /\ [][NextIR]_vars

SpecAttr == InitAttr /\ [][NextAttr]_vars

SpecClass == InitClass /\ [][NextClass]_vars

SpecParse == InitParse /\ [][NextParse]_vars

=========================================================================
